---- MODULE Spec2Model ----
(***************************************************************************)
(* Verification model of the strim aggregation core: the durable store     *)
(* (videos, video_stats, explore_index), the AggregatorService sync and    *)
(* upsert paths, the view-event handlers, the explore-index builder, the   *)
(* fast cache, and the cursor pagination queries.                          *)
(*                                                                         *)
(* Every await of the TypeScript code is a step boundary: one action is    *)
(* the code between two awaits together with the single store or cache     *)
(* statement it issues (each statement is atomic in Postgres / Redis).     *)
(***************************************************************************)
EXTENDS Integers, Sequences, FiniteSets, TLC

VARIABLES
    videos,        \* table videos: id -> row
    videoStats,    \* table video_stats: id -> row
    exploreIndex,  \* table explore_index: id -> row
    videosIdSeq,   \* serial sequence of videos.id (last value handed out)
    statsIdSeq,    \* serial sequence of video_stats.id
    exploreIdSeq,  \* serial sequence of explore_index.id
    now,           \* the clock, in ticks (TicksPerMs ticks to a millisecond)
    sync,          \* the upsertVideos calls in flight: caller -> frame
    callsLeft,     \* upsertVideos calls still to be issued
    faultsLeft,    \* store failures (connection errors) still to be injected
    hist,          \* history of what the calls did (read by the properties only)
    trendingSet,   \* Redis sorted set trending:videos: member -> score
    hotSet,        \* Redis sorted set hot:videos: member -> score (in thousandths)
    hourBuckets,   \* Redis keys views_24h:<key>:<hour>: <<key, hour>> -> counter
    hour,          \* CacheService.getCurrentHour(): hours since the epoch
    view,          \* POST /api/events/view requests: viewer -> frame
    rv,            \* AggregatorService.recordView calls: caller -> frame
    home,          \* syncSource: the home response and where the call stands
    unique,        \* syncSource: the list handed to upsertVideos
    walk,          \* cursor walks of the paginated views, one per client
    pageCache,     \* the explore route's cached first pages
    syncAll,       \* syncAllSources: the frame of the call
    agg,           \* getAggregatedHome: the frame of the call
    redis,         \* the cache backend: "ok", "unconfigured" or "failing"
    allVideosCache,\* cache:videos:all, the cached getAllVideos response
    reply,         \* the result of the last listing call
    streamService, \* the StreamService singleton: adapterCache, and the adapters made
    requests,      \* StreamService calls in flight: caller -> frame
    upstream,      \* what the remote API of a source answers to a drama fetch
    scoring,       \* CacheService.calculateHotScore: the frame of the call
    watch,         \* POST /api/events/watch requests: viewer -> frame
    watched,       \* user_watch_history rows and video_stats.last_viewed_at
    builder,       \* the explore-index builder (sync-explore GET): its frame
    runs           \* per builder run, the popularityScore it wrote per key

storeVars == <<videos, videoStats, exploreIndex, videosIdSeq, statsIdSeq, exploreIdSeq>>
syncVars == <<sync, callsLeft, faultsLeft, hist>>
cacheVars == <<trendingSet, hotSet, hourBuckets, hour, redis, allVideosCache>>
viewVars == <<view, rv>>
builderVars == <<builder, runs>>
homeVars == <<home, unique>>
walkVars == <<walk, pageCache>>
serviceVars == <<syncAll, agg, reply>>
watchVars == <<watch, watched>>
streamVars == <<streamService, requests, upstream, scoring, watchVars>>
elsewhere == <<homeVars, walkVars, serviceVars, streamVars>>
beyondSync == <<cacheVars, viewVars, builderVars, elsewhere>>
vars == <<videos, videoStats, exploreIndex, videosIdSeq, statsIdSeq, exploreIdSeq,
          now, sync, callsLeft, faultsLeft, hist,
          trendingSet, hotSet, hourBuckets, hour, view, rv, builder, runs, home, unique,
          walk, pageCache, syncAll, agg, redis, allVideosCache, reply,
          streamService, requests, upstream, scoring, watch, watched>>

(***************************************************************************)
(* Bounds of the model.                                                    *)
(***************************************************************************)
MaxExternalId == 2   \* external ids "1" .. per source
MaxCalls == 3        \* upsertVideos calls per behaviour
MaxFaults == 1       \* injected store failures per behaviour
MaxClock == 2        \* last clock tick
ViewSyncs == 2       \* syncs of the viewed drama on the view path
MaxRecordViews == 2  \* recordView calls each caller makes, one after the other
MaxSection == 2      \* dramas per section of a home response
MaxRows == 3         \* rows of a paginated table when a walk starts
MaxBatch == 2        \* items of a batch handed to upsertVideos
MaxAggCalls == 2     \* getAggregatedHome calls, one after the other
MaxSyncAll == 2      \* syncAllSources calls, one after the other
MaxBuilds == 2       \* runs of the explore-index builder per behaviour
TicksPerMs == 2      \* store timestamps are finer than a JavaScript Date

\* program constants
VIEW_24H_HOURS == 24     \* TTL.VIEW_24H = 86400 seconds
MS_PER_SECOND == 1000    \* createdAt.getTime() / 1000
ROUTE_MAX_LIMIT == 50    \* Math.min(parseInt(limit), 50)
MIN_WATCH_TIME == 30     \* seconds watched for a view to count as a hot view

Viewers == {"v1", "v2"}
RecordViewCallers == {"r1"}
Walkers == {"w1", "w2"}

\* src/lib/services/StreamService.ts: Object.keys(adapterFactories)
SUPPORTED_SOURCES == <<"dramadash", "dramabox">>
Sources == {SUPPORTED_SOURCES[i] : i \in 1..Len(SUPPORTED_SOURCES)}
ExternalIds == {ToString(i) : i \in 1..MaxExternalId}
Titles == {"X", "Y"}
SyncCallers == {"s1", "s2"}

\* NormalizedDrama, reduced to the fields the store keys on and one metadata
\* field (title stands for title/poster/description/genres/releaseYear/
\* totalEpisodes, which upsertVideos copies in the same assignment).
Dramas == [source : Sources, id : ExternalIds, title : Titles]

\* CacheService.createVideoKey
createVideoKey(source, externalId) == source \o ":" \o externalId

Keys == {createVideoKey(s, e) : s \in Sources, e \in ExternalIds}
DramaKey(d) == createVideoKey(d.source, d.id)

\* new Date(): the clock at JavaScript's millisecond precision
JsDate(t) == (t \div TicksPerMs) * TicksPerMs

Put(f, k, v) == [x \in (DOMAIN f) \cup {k} |-> IF x = k THEN v ELSE f[x]]
Min(a, b) == IF a < b THEN a ELSE b

(***************************************************************************)
(* Store queries used by the aggregator.                                   *)
(***************************************************************************)
\* the unique index source_external_id_idx on videos
VideoKeyTaken(source, externalId) ==
    \E i \in DOMAIN videos :
        videos[i].source = source /\ videos[i].externalId = externalId

\* the unique index video_stats_video_id_idx on video_stats
StatsTaken(videoId) == \E i \in DOMAIN videoStats : videoStats[i].videoId = videoId

RowKey(i) == createVideoKey(videos[i].source, videos[i].externalId)
VideoRows(k) == {i \in DOMAIN videos : RowKey(i) = k}
StatsRows(videoId) == {i \in DOMAIN videoStats : videoStats[i].videoId = videoId}

\* a faulty lookup, for comparison: where(externalId = ..) alone
SelectVideoWrongKey(source, externalId) ==
    LET m == {i \in DOMAIN videos : videos[i].externalId = externalId}
    IN  IF m = {} THEN <<>> ELSE <<CHOOSE i \in m : \A j \in m : i <= j>>

\* select().from(videos).where(source = .. and externalId = ..).limit(1)
SelectVideo(source, externalId) ==
    LET m == {i \in DOMAIN videos :
                 videos[i].source = source /\ videos[i].externalId = externalId}
    IN  IF m = {} THEN <<>> ELSE <<CHOOSE i \in m : \A j \in m : i <= j>>

(***************************************************************************)
(* AggregatorService.upsertVideos, one frame per call in flight.           *)
(***************************************************************************)
NoData == [source |-> "", externalId |-> "", title |-> "", updatedAt |-> 0]
IdleFrame == [pc |-> "idle", list |-> <<>>, i |-> 0, existing |-> <<>>,
              data |-> NoData, inserted |-> 0, afterFail |-> FALSE]

Busy(p) == sync[p].pc # "idle"
CurrentItem(p) == sync[p].list[sync[p].i]
CurrentKey(p) == DramaKey(CurrentItem(p))
OthersOn(p, k) == \E q \in SyncCallers \ {p} : Busy(q) /\ CurrentKey(q) = k

\* the clock is read by a statement: since the last reading it stood still
\* or moved on by one tick
ReadClock(t) ==
    /\ t \in {now, now + 1}
    /\ t <= MaxClock
    /\ now' = t

\* the racing callers each sync one title: one-item lists of the first id
RaceLists == {<<d>> : d \in {x \in Dramas : x.id = "1"}}

\* a faulty loop, for comparison: an exception of the item leaves the loop
\* and the call
FinishItemAbort(p, ok, h) ==
    LET s == sync[p]
        k == CurrentKey(p)
        h1 == [h EXCEPT !.done[k] = @ + 1,
                        !.last[k] = s.list[s.i].title,
                        !.resynced = IF ok /\ s.afterFail THEN @ \cup {k} ELSE @]
    IN  IF ~ok
        THEN /\ sync' = [sync EXCEPT ![p] = [IdleFrame EXCEPT !.pc = "raised"]]
             /\ hist' = h1
        ELSE IF s.i < Len(s.list)
        THEN LET nk == DramaKey(s.list[s.i + 1])
             IN  /\ sync' = [sync EXCEPT ![p] =
                        [IdleFrame EXCEPT !.pc = "select", !.list = s.list,
                                          !.i = s.i + 1,
                                          !.afterFail = nk \in h1.statsFailed]]
                 /\ hist' = [h1 EXCEPT
                        !.raced = IF OthersOn(p, nk) THEN @ \cup {nk} ELSE @,
                        !.submitted[nk] = @ \cup {s.list[s.i + 1].title}]
        ELSE /\ sync' = [sync EXCEPT ![p] = IdleFrame]
             /\ hist' = h1

\* the loop moves to the next item (or the call returns); ok = no exception
FinishItem(p, ok, h) ==
    LET s == sync[p]
        k == CurrentKey(p)
        h1 == [h EXCEPT !.done[k] = @ + 1,
                        !.last[k] = s.list[s.i].title,
                        !.resynced = IF ok /\ s.afterFail THEN @ \cup {k} ELSE @]
        more == s.i < Len(s.list)
    IN  IF more
        THEN LET nk == DramaKey(s.list[s.i + 1])
             IN  /\ sync' = [sync EXCEPT ![p] =
                        [IdleFrame EXCEPT !.pc = "select", !.list = s.list,
                                          !.i = s.i + 1,
                                          !.afterFail = nk \in h1.statsFailed]]
                 /\ hist' = [h1 EXCEPT
                        !.raced = IF OthersOn(p, nk) THEN @ \cup {nk} ELSE @,
                        !.submitted[nk] = @ \cup {s.list[s.i + 1].title}]
        ELSE /\ sync' = [sync EXCEPT ![p] = IdleFrame]
             /\ hist' = h1

\* upsertVideos(normalizedVideos): entry, up to the first select
UpsertStart(p, l) ==
    /\ ~Busy(p)
    /\ callsLeft > 0
    /\ callsLeft' = callsLeft - 1
    /\ LET k == DramaKey(l[1])
       IN  /\ sync' = [sync EXCEPT ![p] =
                  [IdleFrame EXCEPT !.pc = "select", !.list = l, !.i = 1,
                                    !.afterFail = k \in hist.statsFailed]]
           /\ hist' = [hist EXCEPT
                  !.raced = IF OthersOn(p, k) THEN @ \cup {k} ELSE @,
                  !.submitted[k] = @ \cup {l[1].title},
                  !.batch = @ \cup {l[n] : n \in DOMAIN l}]
    /\ UNCHANGED <<storeVars, now, faultsLeft, beyondSync>>

\* "Check if exists" select, then videoData is built with updatedAt: new Date()
UpsertSelect(p) ==
    /\ sync[p].pc = "select"
    /\ \E t \in 0..MaxClock :
        /\ ReadClock(t)
        /\ LET v == CurrentItem(p)
               existing == SelectVideo(v.source, v.id)
           IN  sync' = [sync EXCEPT ![p] =
                   [@ EXCEPT !.existing = existing,
                             !.data = [source |-> v.source, externalId |-> v.id,
                                       title |-> v.title, updatedAt |-> JsDate(t)],
                             !.pc = IF Len(existing) > 0 THEN "update" ELSE "insert"]]
    /\ UNCHANGED <<storeVars, callsLeft, faultsLeft, hist, beyondSync>>

\* a faulty update, for comparison: the title is left as it was
UpdateVideoKeepTitle(row, data) ==
    [row EXCEPT !.source = data.source, !.externalId = data.externalId,
                !.updatedAt = data.updatedAt]

\* a faulty update, for comparison: created_at is set along with updated_at
UpdateVideoResetCreated(row, data) ==
    [row EXCEPT !.source = data.source, !.externalId = data.externalId,
                !.title = data.title, !.updatedAt = data.updatedAt,
                !.createdAt = data.updatedAt]

\* update(videos).set(videoData).where(id = existing[0].id)
UpdateVideo(row, data) ==
    [row EXCEPT !.source = data.source, !.externalId = data.externalId,
                !.title = data.title, !.updatedAt = data.updatedAt]

UpsertUpdate(p) ==
    /\ sync[p].pc = "update"
    /\ LET id == sync[p].existing[1]
       IN  videos' = IF id \in DOMAIN videos
                     THEN [videos EXCEPT ![id] = UpdateVideo(@, sync[p].data)]
                     ELSE videos
    /\ FinishItem(p, TRUE, hist)
    /\ UNCHANGED <<videoStats, exploreIndex, videosIdSeq, statsIdSeq, exploreIdSeq,
                   now, callsLeft, faultsLeft, beyondSync>>

\* insert(videos).values(videoData).returning(); the serial id is consumed
\* even when the unique index rejects the row; the rejection is an exception
\* that the loop's catch logs, and the item is left unapplied
UpsertInsert(p) ==
    /\ sync[p].pc = "insert"
    /\ videosIdSeq' = videosIdSeq + 1
    /\ \E t \in 0..MaxClock :
        /\ ReadClock(t)
        /\ LET d == sync[p].data
               k == CurrentKey(p)
           IN  IF VideoKeyTaken(d.source, d.externalId)
               THEN /\ FinishItem(p, FALSE, [hist EXCEPT !.dropped = @ \cup {k}])
                    /\ UNCHANGED videos
               ELSE /\ videos' = Put(videos, videosIdSeq + 1,
                                     [source |-> d.source, externalId |-> d.externalId,
                                      title |-> d.title, createdAt |-> t,
                                      updatedAt |-> d.updatedAt])
                    /\ sync' = [sync EXCEPT ![p] =
                           [@ EXCEPT !.inserted = videosIdSeq + 1, !.pc = "stats"]]
                    /\ UNCHANGED hist
    /\ UNCHANGED <<videoStats, exploreIndex, statsIdSeq, exploreIdSeq,
                   callsLeft, faultsLeft, beyondSync>>

\* insert(videoStats).values({videoId: inserted.id, viewsTotal: 0, views24h: 0})
UpsertStats(p) ==
    /\ sync[p].pc = "stats"
    /\ statsIdSeq' = statsIdSeq + 1
    /\ IF StatsTaken(sync[p].inserted)
       THEN /\ FinishItem(p, FALSE, hist)
            /\ UNCHANGED videoStats
       ELSE /\ videoStats' = Put(videoStats, statsIdSeq + 1,
                                 [videoId |-> sync[p].inserted,
                                  viewsTotal |-> 0, views24h |-> 0])
            /\ FinishItem(p, TRUE, hist)
    /\ UNCHANGED <<videos, exploreIndex, videosIdSeq, exploreIdSeq,
                   now, callsLeft, faultsLeft, beyondSync>>

\* a store statement of the loop body fails (connection error): the catch
\* of the loop logs it and the loop goes on with the next item
UpsertFault(p) ==
    /\ Busy(p)
    /\ faultsLeft > 0
    /\ faultsLeft' = faultsLeft - 1
    /\ LET k == CurrentKey(p)
       IN  FinishItem(p, FALSE,
               [hist EXCEPT !.faulted = @ \cup {k},
                            !.statsFailed = IF sync[p].pc = "stats"
                                            THEN @ \cup {k} ELSE @])
    /\ UNCHANGED <<storeVars, now, callsLeft, beyondSync>>


(***************************************************************************)
(* CacheService: the Redis commands behind the view counters.              *)
(***************************************************************************)
\* a faulty method, for comparison: the backend call outside any try/catch
Unguarded(mode, hit, miss) ==
    [raised |-> mode = "failing", value |-> IF mode = "ok" THEN hit ELSE miss]

\* the frame of every CacheService method:
\* if (!this.redis) return <miss>; try { <backend call> } catch { return <miss> }
Guarded(mode, hit, miss) ==
    [raised |-> FALSE, value |-> IF mode = "ok" THEN hit ELSE miss]

\* get() of a key that is not there: null
NoCached == [isNull |-> TRUE, videos |-> <<>>, total |-> 0]

InitCache ==
    /\ trendingSet = <<>>
    /\ hotSet = <<>>
    /\ hourBuckets = <<>>
    /\ hour = 0
    /\ redis = "ok"
    /\ allVideosCache = NoCached

\* a faulty counter, for comparison: ZADD trending:videos 1 <videoKey>
SetViewCount(set, videoKey) ==
    Put(set, videoKey, 1)

\* incrementViewCount: ZINCRBY trending:videos 1 <videoKey>
IncrementViewCount(set, videoKey) ==
    Put(set, videoKey, IF videoKey \in DOMAIN set THEN set[videoKey] + 1 ELSE 1)

\* a faulty bucket counter, for comparison: SET <hourKey> 1
HotViewSet(buckets, videoKey, h) ==
    Put(buckets, <<videoKey, h>>, [count |-> 1, expires |-> -1])

\* recordHotView, first command: INCR views_24h:<videoKey>:<currentHour>
HotViewIncr(buckets, videoKey, h) ==
    LET b == <<videoKey, h>>
    IN  Put(buckets, b,
            IF b \in DOMAIN buckets
            THEN [buckets[b] EXCEPT !.count = @ + 1]
            ELSE [count |-> 1, expires |-> -1])

\* recordHotView, second command: EXPIRE <hourKey> 86400 (24 hours from now)
HotViewExpire(buckets, videoKey, h, current) ==
    LET b == <<videoKey, h>>
    IN  IF b \in DOMAIN buckets
        THEN [buckets EXCEPT ![b].expires = current + VIEW_24H_HOURS]
        ELSE buckets

(***************************************************************************)
(* POST /api/events/view and its background updateDatabaseViewCount.       *)
(***************************************************************************)
NoStats == [viewsTotal |-> -1, views24h |-> -1]
NewView == [pc |-> "new", source |-> "", externalId |-> "", pending |-> {},
            bucketHour |-> 0, videoId |-> 0, stats |-> NoStats]
DoneView == [NewView EXCEPT !.pc = "done"]
\* the route's catch: status 500, the durable update is not started
FailedView == [NewView EXCEPT !.pc = "failed"]

\* the request arrives; Promise.all starts both cache helpers
ViewPost(v, source, externalId) ==
    /\ view[v].pc = "new"
    /\ view' = [view EXCEPT ![v] =
           [NewView EXCEPT !.pc = "cache", !.source = source,
                           !.externalId = externalId,
                           !.pending = {"zincrby", "incr"}]]
    /\ UNCHANGED <<storeVars, now, syncVars, cacheVars, rv, builderVars, elsewhere>>

ViewZincrby(v) ==
    /\ view[v].pc = "cache"
    /\ "zincrby" \in view[v].pending
    /\ LET z == Guarded(redis,
                        IncrementViewCount(trendingSet,
                            createVideoKey(view[v].source, view[v].externalId)),
                        trendingSet)
       IN  /\ trendingSet' = z.value
           /\ view' = IF z.raised THEN [view EXCEPT ![v] = FailedView]
                      ELSE [view EXCEPT ![v].pending = @ \ {"zincrby"}]
    /\ UNCHANGED <<storeVars, now, syncVars, hotSet, hourBuckets, hour, redis,
                   allVideosCache, rv, builderVars, elsewhere>>

ViewHotIncr(v) ==
    /\ view[v].pc = "cache"
    /\ "incr" \in view[v].pending
    /\ LET z == Guarded(redis,
                        HotViewIncr(hourBuckets,
                            createVideoKey(view[v].source, view[v].externalId), hour),
                        hourBuckets)
       IN  /\ hourBuckets' = z.value
           /\ view' = IF z.raised THEN [view EXCEPT ![v] = FailedView]
                      ELSE IF redis = "ok"
                      THEN [view EXCEPT ![v].pending = (@ \ {"incr"}) \cup {"expire"},
                                        ![v].bucketHour = hour]
                      ELSE [view EXCEPT ![v].pending = @ \ {"incr"}]
    /\ UNCHANGED <<storeVars, now, syncVars, trendingSet, hotSet, hour, redis,
                   allVideosCache, rv, builderVars, elsewhere>>

ViewHotExpire(v) ==
    /\ view[v].pc = "cache"
    /\ "expire" \in view[v].pending
    /\ LET z == Guarded(redis,
                        HotViewExpire(hourBuckets,
                            createVideoKey(view[v].source, view[v].externalId),
                            view[v].bucketHour, hour),
                        hourBuckets)
       IN  /\ hourBuckets' = z.value
           /\ view' = IF z.raised THEN [view EXCEPT ![v] = FailedView]
                      ELSE [view EXCEPT ![v].pending = @ \ {"expire"}]
    /\ UNCHANGED <<storeVars, now, syncVars, trendingSet, hotSet, hour, redis,
                   allVideosCache, rv, builderVars, elsewhere>>

\* updateDatabaseViewCount: "Find the video"
ViewFind(v) ==
    /\ view[v].pc = "cache"
    /\ view[v].pending = {}
    /\ LET video == SelectVideo(view[v].source, view[v].externalId)
       IN  view' = [view EXCEPT ![v] =
               IF Len(video) = 0
               THEN DoneView
               ELSE [@ EXCEPT !.pc = "read", !.videoId = video[1]]]
    /\ UNCHANGED <<storeVars, now, syncVars, cacheVars, rv, builderVars, elsewhere>>

\* select().from(videoStats).where(videoId = ..).limit(1)
SelectStats(videoId) ==
    LET m == {i \in DOMAIN videoStats : videoStats[i].videoId = videoId}
    IN  IF m = {} THEN <<>> ELSE <<CHOOSE i \in m : \A j \in m : i <= j>>

\* updateDatabaseViewCount: "Check if stats exist"
ViewRead(v) ==
    /\ view[v].pc = "read"
    /\ LET st == SelectStats(view[v].videoId)
       IN  view' = [view EXCEPT ![v] =
               [@ EXCEPT !.pc = "write",
                         !.stats = IF Len(st) = 0 THEN NoStats
                                   ELSE [viewsTotal |-> videoStats[st[1]].viewsTotal,
                                         views24h |-> videoStats[st[1]].views24h]]]
    /\ UNCHANGED <<storeVars, now, syncVars, cacheVars, rv, builderVars, elsewhere>>

\* the values the handler writes back: the values it read, plus one
ViewWrittenStats(row, read) ==
    [row EXCEPT !.viewsTotal = read.viewsTotal + 1, !.views24h = read.views24h + 1]

\* updateDatabaseViewCount: insert a first stats row, or write back read + 1
ViewWrite(v) ==
    /\ view[v].pc = "write"
    /\ IF view[v].stats = NoStats
       THEN /\ statsIdSeq' = statsIdSeq + 1
            /\ videoStats' = IF StatsTaken(view[v].videoId)
                             THEN videoStats
                             ELSE Put(videoStats, statsIdSeq + 1,
                                      [videoId |-> view[v].videoId,
                                       viewsTotal |-> 1, views24h |-> 1])
       ELSE /\ UNCHANGED statsIdSeq
            /\ videoStats' = [i \in DOMAIN videoStats |->
                                 IF videoStats[i].videoId = view[v].videoId
                                 THEN ViewWrittenStats(videoStats[i], view[v].stats)
                                 ELSE videoStats[i]]
    /\ view' = [view EXCEPT ![v] = DoneView]
    /\ UNCHANGED <<videos, exploreIndex, videosIdSeq, exploreIdSeq,
                   now, syncVars, cacheVars, rv, builderVars, elsewhere>>

(***************************************************************************)
(* AggregatorService.recordView.                                           *)
(***************************************************************************)
NewRv == [pc |-> "new", source |-> "", externalId |-> "", bucketHour |-> 0,
          videoId |-> 0, calls |-> 0]
\* the call returns; the caller may call again
ReturnedRv(r) == [NewRv EXCEPT !.calls = rv[r].calls + 1]
RvKey(r) == createVideoKey(rv[r].source, rv[r].externalId)

RecordViewStart(r, source, externalId) ==
    /\ rv[r].pc = "new"
    /\ rv[r].calls < MaxRecordViews
    /\ rv' = [rv EXCEPT ![r] =
           [@ EXCEPT !.pc = "zincrby", !.source = source,
                     !.externalId = externalId]]
    /\ UNCHANGED <<storeVars, now, syncVars, cacheVars, view, builderVars, elsewhere>>

RecordViewZincrby(r) ==
    /\ rv[r].pc = "zincrby"
    /\ LET z == Guarded(redis, IncrementViewCount(trendingSet, RvKey(r)), trendingSet)
       IN  /\ trendingSet' = z.value
           /\ rv' = [rv EXCEPT ![r].pc = IF z.raised THEN "raised" ELSE "incr"]
    /\ UNCHANGED <<storeVars, now, syncVars, hotSet, hourBuckets, hour, redis,
                   allVideosCache, view, builderVars, elsewhere>>

RecordViewHotIncr(r) ==
    /\ rv[r].pc = "incr"
    /\ LET z == Guarded(redis, HotViewIncr(hourBuckets, RvKey(r), hour), hourBuckets)
       IN  /\ hourBuckets' = z.value
           /\ rv' = [rv EXCEPT ![r].pc = IF z.raised THEN "raised"
                                         ELSE IF redis = "ok" THEN "expire"
                                         ELSE "select",
                               ![r].bucketHour = hour]
    /\ UNCHANGED <<storeVars, now, syncVars, trendingSet, hotSet, hour, redis,
                   allVideosCache, view, builderVars, elsewhere>>

RecordViewHotExpire(r) ==
    /\ rv[r].pc = "expire"
    /\ LET z == Guarded(redis,
                        HotViewExpire(hourBuckets, RvKey(r), rv[r].bucketHour, hour),
                        hourBuckets)
       IN  /\ hourBuckets' = z.value
           /\ rv' = [rv EXCEPT ![r].pc = IF z.raised THEN "raised" ELSE "select"]
    /\ UNCHANGED <<storeVars, now, syncVars, trendingSet, hotSet, hour, redis,
                   allVideosCache, view, builderVars, elsewhere>>

\* "Find video"; when there is none the durable update is skipped
RecordViewSelect(r) ==
    /\ rv[r].pc = "select"
    /\ LET video == SelectVideo(rv[r].source, rv[r].externalId)
       IN  rv' = [rv EXCEPT ![r] =
               IF Len(video) = 0 THEN ReturnedRv(r)
               ELSE [@ EXCEPT !.pc = "update", !.videoId = video[1]]]
    /\ UNCHANGED <<storeVars, now, syncVars, cacheVars, view, builderVars, elsewhere>>

\* update(videoStats).set({viewsTotal: sql`views_total + 1`, ...}): the
\* increment is evaluated by the store, inside the statement
RecordViewUpdate(r) ==
    /\ rv[r].pc = "update"
    /\ videoStats' = [i \in DOMAIN videoStats |->
                         IF videoStats[i].videoId = rv[r].videoId
                         THEN [videoStats[i] EXCEPT !.viewsTotal = @ + 1,
                                                    !.views24h = @ + 1]
                         ELSE videoStats[i]]
    /\ rv' = [rv EXCEPT ![r] = ReturnedRv(r)]
    /\ UNCHANGED <<videos, exploreIndex, videosIdSeq, statsIdSeq, exploreIdSeq,
                   now, syncVars, cacheVars, view, builderVars, elsewhere>>

(***************************************************************************)
(* The explore-index builder: GET sync-explore.                            *)
(***************************************************************************)
NoHome == [pc |-> "none"]
IdleSyncAll == [pc |-> "idle", i |-> 0, errors |-> <<>>, totalSynced |-> 0,
                attempted |-> <<>>, homes |-> <<>>, runs |-> 0]
NoReply == [op |-> "none", raised |-> FALSE, videos |-> <<>>, total |-> 0,
            limit |-> 0, offset |-> 0, source |-> ""]
IdleAgg == [pc |-> "idle", results |-> <<>>, response |-> [status |-> 0, sources |-> <<>>],
            adapterCache |-> {}, calls |-> 0]
\* no adapter made or cached, no StreamService call in flight
NoAdapters == [adapterCache |-> <<>>, made |-> <<>>]
IdleRequest == [pc |-> "idle", op |-> "", source |-> "", episodeNumber |-> 0,
                adapter |-> 0,
                response |-> [status |-> 0, error |-> "", isNull |-> TRUE,
                              episodes |-> <<>>]]
IdleScoring == [pc |-> "idle", videoKey |-> "", currentHour |-> 0, hoursAgo |-> 0,
                totalScore |-> 0, buckets |-> <<>>]
\* a watch request not yet received; history and time are the two updates the
\* route starts without awaiting them
NewWatch == [pc |-> "new", source |-> "", externalId |-> "", episodeNumber |-> 0,
             progress |-> 0, userId |-> "", bucketHour |-> 0, status |-> 0,
             history |-> "none", historyVideoId |-> 0,
             time |-> "none", timeVideoId |-> 0]
NoWatched == [history |-> <<>>, lastViewedAt |-> <<>>]
InitWatchIdle ==
    /\ watch = [v \in Viewers |-> NewWatch]
    /\ watched = NoWatched

InitStreamIdle ==
    /\ streamService = NoAdapters
    /\ requests = <<>>
    /\ upstream = <<>>
    /\ scoring = IdleScoring
    /\ InitWatchIdle

IdleWalk == [pc |-> "idle", via |-> "", sort |-> "", source |-> "", limit |-> 0,
             cursor |-> <<>>, got |-> <<>>, startIds |-> {}]

IdleBuilder(n) == [pc |-> "idle", entries |-> {}, started |-> n]

\* a faulty score, for comparison: recent views not weighted
PopularityScoreUnweighted(viewsTotal, views24h) == viewsTotal + views24h

\* popularityScore = viewsTotal + views24h * 3
PopularityScore(viewsTotal, views24h) == viewsTotal + (views24h * 3)

\* latestScore = Math.floor(createdAt.getTime() / 1000)
LatestScore(createdAt) == (createdAt \div TicksPerMs) \div MS_PER_SECOND

\* ratingScore = viewsTotal
RatingScore(viewsTotal) == viewsTotal

\* videos LEFT JOIN video_stats, COALESCE(views, 0), mapped to index entries
IndexEntries ==
    LET joined(i) ==
            IF StatsRows(i) = {}
            THEN {[viewsTotal |-> 0, views24h |-> 0]}
            ELSE {[viewsTotal |-> videoStats[j].viewsTotal,
                   views24h |-> videoStats[j].views24h] : j \in StatsRows(i)}
    IN  UNION {{[source |-> videos[i].source,
                 externalId |-> videos[i].externalId,
                 title |-> videos[i].title,
                 popularityScore |-> PopularityScore(st.viewsTotal, st.views24h),
                 latestScore |-> LatestScore(videos[i].createdAt),
                 ratingScore |-> RatingScore(st.viewsTotal)] : st \in joined(i)}
               : i \in DOMAIN videos}

\* the job starts: one SELECT reads every video with its stats
BuilderRead ==
    /\ builder.pc = "idle"
    /\ builder.started < MaxBuilds
    /\ builder' = IF IndexEntries = {}
                  THEN IdleBuilder(builder.started + 1)
                  ELSE [pc |-> "upsert", entries |-> IndexEntries,
                        started |-> builder.started + 1]
    /\ runs' = Append(runs, <<>>)
    /\ UNCHANGED <<storeVars, now, syncVars, cacheVars, viewVars, elsewhere>>

\* a faulty upsert, for comparison: the row in conflict is deleted and the
\* entry inserted under the new serial id
ExploreReplace(index, id, e) ==
    LET hit == {i \in DOMAIN index :
                   index[i].source = e.source /\ index[i].externalId = e.externalId}
    IN  Put([i \in (DOMAIN index) \ hit |-> index[i]], id, e)

\* insert(exploreIndex).values(entry).onConflictDoUpdate(target: (source,
\* externalId)): the serial id is drawn before the conflict is detected
ExploreUpsert(index, id, e) ==
    LET hit == {i \in DOMAIN index :
                   index[i].source = e.source /\ index[i].externalId = e.externalId}
    IN  IF hit = {}
        THEN Put(index, id, e)
        ELSE [i \in DOMAIN index |-> IF i \in hit THEN e ELSE index[i]]

BuilderUpsert(e) ==
    /\ builder.pc = "upsert"
    /\ e \in builder.entries
    /\ exploreIdSeq' = exploreIdSeq + 1
    /\ exploreIndex' = ExploreUpsert(exploreIndex, exploreIdSeq + 1, e)
    /\ builder' = IF builder.entries = {e}
                  THEN IdleBuilder(builder.started)
                  ELSE [builder EXCEPT !.entries = @ \ {e}]
    /\ runs' = [runs EXCEPT ![Len(runs)] =
                   Put(@, createVideoKey(e.source, e.externalId), e.popularityScore)]
    /\ UNCHANGED <<videos, videoStats, videosIdSeq, statsIdSeq,
                   now, syncVars, cacheVars, viewVars, elsewhere>>

(***************************************************************************)
(* Specification of the sync path: concurrent upsertVideos calls.          *)
(***************************************************************************)
InitHist == [done |-> [k \in Keys |-> 0],
             last |-> [k \in Keys |-> ""],
             submitted |-> [k \in Keys |-> {}],
             raced |-> {}, faulted |-> {}, dropped |-> {},
             statsFailed |-> {}, resynced |-> {}, batch |-> {}]

Init ==
    /\ videos = <<>>
    /\ videoStats = <<>>
    /\ exploreIndex = <<>>
    /\ videosIdSeq = 0
    /\ statsIdSeq = 0
    /\ exploreIdSeq = 0
    /\ now = 0
    /\ sync = [p \in SyncCallers |-> IdleFrame]
    /\ callsLeft = MaxCalls
    /\ faultsLeft = MaxFaults
    /\ hist = InitHist
    /\ InitCache
    /\ view = [v \in Viewers |-> NewView]
    /\ rv = [r \in RecordViewCallers |-> NewRv]
    /\ builder = IdleBuilder(0)
    /\ runs = <<>>
    /\ home = NoHome
    /\ unique = <<>>
    /\ walk = [w \in Walkers |-> IdleWalk]
    /\ pageCache = <<>>
    /\ syncAll = IdleSyncAll
    /\ agg = IdleAgg
    /\ reply = NoReply
    /\ InitStreamIdle

Next ==
    \/ \E p \in SyncCallers, l \in RaceLists : UpsertStart(p, l)
    \/ \E p \in SyncCallers : UpsertSelect(p)
    \/ \E p \in SyncCallers : UpsertUpdate(p)
    \/ \E p \in SyncCallers : UpsertInsert(p)
    \/ \E p \in SyncCallers : UpsertStats(p)
    \/ \E p \in SyncCallers : UpsertFault(p)

Spec == Init /\ [][Next]_vars


(***************************************************************************)
(* AggregatorService.getHot and what it reads.                             *)
(***************************************************************************)
\* the orders in which ZREVRANGE / ORDER BY .. DESC may return the members of
\* S: highest rank first; rows of equal rank in any order
RECURSIVE Descending(_, _)
Descending(S, rank) ==
    IF S = {} THEN {<<>>}
    ELSE UNION {{<<x>> \o rest : rest \in Descending(S \ {x}, rank)}
                : x \in {y \in S : \A z \in S : rank[z] <= rank[y]}}

FirstN(q, n) == SubSeq(q, 1, IF Len(q) < n THEN Len(q) ELSE n)

\* CacheService.getHotScores: ZREVRANGE hot:videos 0 limit-1 WITHSCORES
HotScoresCall(limit) ==
    Guarded(redis,
            {[i \in 1..Len(FirstN(q, limit)) |-> [key |-> q[i], score |-> hotSet[q[i]]]]
                 : q \in Descending(DOMAIN hotSet, hotSet)},
            {<<>>})

GetHotScores(limit) == HotScoresCall(limit).value

\* the views24h a row is listed with: COALESCE(video_stats.views_24h, 0)
JoinedViews24h(i) ==
    IF StatsRows(i) = {} THEN 0
    ELSE videoStats[CHOOSE j \in StatsRows(i) : TRUE].views24h

\* getVideosByKeys: one LIMIT 1 lookup per key, missing videos are left out
RECURSIVE GetVideosByKeys(_)
GetVideosByKeys(keys) ==
    IF Len(keys) = 0 THEN <<>>
    ELSE LET rows == VideoRows(keys[1])
             here == IF rows = {} THEN <<>>
                     ELSE LET i == CHOOSE r \in rows : \A o \in rows : r <= o
                          IN  <<[key |-> RowKey(i), views24h |-> JoinedViews24h(i)]>>
         IN  here \o GetVideosByKeys(Tail(keys))

\* getHot: the hot sorted set when it has members, else the store ordered by
\* video_stats.views_24h DESC (a video without stats sorts first)
GetHot(limit) ==
    LET counts == {videoStats[j].views24h : j \in DOMAIN videoStats}
        first == IF counts = {} THEN 0
                 ELSE 1 + CHOOSE n \in counts : \A m \in counts : m <= n
        fallbackRank == [i \in DOMAIN videos |->
                            IF StatsRows(i) = {} THEN first ELSE JoinedViews24h(i)]
    IN  IF DOMAIN hotSet # {}
        THEN {GetVideosByKeys([i \in 1..Len(sc) |-> sc[i].key])
              : sc \in GetHotScores(limit)}
        ELSE {[i \in 1..Len(FirstN(q, limit)) |->
                  [key |-> RowKey(q[i]), views24h |-> JoinedViews24h(q[i])]]
              : q \in Descending(DOMAIN videos, fallbackRank)}


(***************************************************************************)
(* getTrending: AggregatorService's and TrendingService's.  A result is a  *)
(* record: raised (an exception left the call) and the videos returned.    *)
(***************************************************************************)
\* CacheService.getTrendingScores: ZREVRANGE trending:videos 0 limit-1 WITHSCORES
TrendingScoresCall(limit) ==
    Guarded(redis,
            {[i \in 1..Len(FirstN(q, limit)) |->
                 [key |-> q[i], score |-> trendingSet[q[i]]]]
                 : q \in Descending(DOMAIN trendingSet, trendingSet)},
            {<<>>})

GetTrendingScores(limit) == TrendingScoresCall(limit).value

\* COALESCE(video_stats.views_total, 0)
JoinedViewsTotal(i) ==
    IF StatsRows(i) = {} THEN 0
    ELSE videoStats[CHOOSE j \in StatsRows(i) : TRUE].viewsTotal

ScoreKeys(sc) == [i \in 1..Len(sc) |-> sc[i].key]

\* the store fallbacks: ORDER BY rank DESC LIMIT limit
OrderedByRank(rank, limit) ==
    {[i \in 1..Len(FirstN(q, limit)) |->
         [key |-> RowKey(q[i]), score |-> JoinedViewsTotal(q[i])]]
       : q \in Descending(DOMAIN videos, rank)}

\* AggregatorService.getTrending for the scores the cache returned: the
\* per-key lookups of getVideosByKeys, else the store by
\* desc(video_stats.views_total), where a video without stats sorts first
GetTrendingFor(sc, limit) ==
    LET counts == {videoStats[j].viewsTotal : j \in DOMAIN videoStats}
        first == IF counts = {} THEN 0
                 ELSE 1 + CHOOSE n \in counts : \A m \in counts : m <= n
        rank == [i \in DOMAIN videos |->
                    IF StatsRows(i) = {} THEN first ELSE JoinedViewsTotal(i)]
    IN  IF Len(sc) > 0
        THEN {[raised |-> FALSE,
               videos |-> [n \in DOMAIN GetVideosByKeys(ScoreKeys(sc)) |->
                              [key |-> GetVideosByKeys(ScoreKeys(sc))[n].key,
                               score |-> 0]]]}
        ELSE {[raised |-> FALSE, videos |-> v] : v \in OrderedByRank(rank, limit)}

\* TrendingService.getVideosByKeys: one query for all the keys, then
\* keys.map(key => results.find(..)), which is undefined for a key without a
\* row; .filter(v => v !== null) keeps undefined, and the following
\* .map(v => ({...v, score: v.viewsTotal})) reads a property of it: TypeError
TrendingGetVideosByKeys(keys) ==
    IF Len(keys) = 0 THEN [raised |-> FALSE, videos |-> <<>>]
    ELSE IF \E n \in DOMAIN keys : VideoRows(keys[n]) = {}
    THEN [raised |-> TRUE, videos |-> <<>>]
    ELSE [raised |-> FALSE,
          videos |-> [n \in DOMAIN keys |->
                         [key |-> keys[n],
                          score |-> JoinedViewsTotal(
                                       CHOOSE i \in VideoRows(keys[n]) :
                                           \A o \in VideoRows(keys[n]) : i <= o)]]]

\* TrendingService.getTrending for the scores the cache returned: the
\* videos of the keys with the cache's score, else getTrendingFromDb
TrendingGetTrendingFor(sc, limit) ==
    LET byKeys == TrendingGetVideosByKeys(ScoreKeys(sc))
        rank == [i \in DOMAIN videos |-> JoinedViewsTotal(i)]
    IN  IF Len(sc) > 0
        THEN {[byKeys EXCEPT !.videos =
                  [n \in DOMAIN byKeys.videos |->
                      [key |-> byKeys.videos[n].key,
                       score |-> CHOOSE x \in {sc[m].score : m \in DOMAIN sc} :
                                    \E m \in DOMAIN sc :
                                        /\ sc[m].key = byKeys.videos[n].key
                                        /\ sc[m].score = x
                                        /\ \A l \in 1..(m - 1) :
                                               sc[l].key # sc[m].key]]]}
        ELSE {[raised |-> FALSE, videos |-> v] : v \in OrderedByRank(rank, limit)}

GetTrending(limit) ==
    IF TrendingScoresCall(limit).raised
    THEN {[raised |-> TRUE, videos |-> <<>>]}
    ELSE UNION {GetTrendingFor(sc, limit) : sc \in GetTrendingScores(limit)}

TrendingGetTrending(limit) ==
    UNION {TrendingGetTrendingFor(sc, limit) : sc \in GetTrendingScores(limit)}


(***************************************************************************)
(* Cursors: "<number>:<id>" strings, written by template literals and read *)
(* back with split(":") and parseInt.  A string is a sequence of           *)
(* characters; the empty sequence is the absent (null) cursor.             *)
(***************************************************************************)
DigitChars == <<"0", "1", "2", "3", "4", "5", "6", "7", "8", "9">>

\* `${n}` for an integer n >= 0
RECURSIVE ToDecimal(_)
ToDecimal(n) ==
    IF n < 10 THEN <<DigitChars[n + 1]>>
    ELSE ToDecimal(n \div 10) \o <<DigitChars[(n % 10) + 1]>>

\* `${a}:${b}`
MakeCursor(a, b) == ToDecimal(a) \o <<":">> \o ToDecimal(b)

\* str.split(":")
RECURSIVE SplitColon(_)
SplitColon(chars) ==
    IF \A i \in DOMAIN chars : chars[i] # ":" THEN <<chars>>
    ELSE LET at == CHOOSE i \in DOMAIN chars :
                       chars[i] = ":" /\ \A j \in 1..(i - 1) : chars[j] # ":"
         IN  <<SubSeq(chars, 1, at - 1)>> \o SplitColon(SubSeq(chars, at + 1, Len(chars)))

DigitValue(c) == (CHOOSE d \in DOMAIN DigitChars : DigitChars[d] = c) - 1
IsDigit(c) == \E d \in DOMAIN DigitChars : DigitChars[d] = c

\* parseInt(str, 10): the leading digits; <<n>> is the number n, <<>> is NaN
RECURSIVE ParseDigits(_, _, _)
ParseDigits(chars, i, acc) ==
    IF i > Len(chars) \/ ~IsDigit(chars[i]) THEN acc
    ELSE ParseDigits(chars, i + 1, (acc * 10) + DigitValue(chars[i]))

ParseInt(chars) ==
    IF Len(chars) = 0 \/ ~IsDigit(chars[1]) THEN <<>>
    ELSE <<ParseDigits(chars, 1, 0)>>

\* const [first, second] = cursor.split(":"), each through parseInt
ParseCursor(cursor) ==
    LET parts == SplitColon(cursor)
    IN  [first |-> ParseInt(parts[1]),
         second |-> IF Len(parts) >= 2 THEN ParseInt(parts[2]) ELSE <<>>]

(***************************************************************************)
(* The paginated queries.                                                  *)
(***************************************************************************)
\* row comparison (a1, a2) < (b1, b2)
PairBelow(a, b) == a[1] < b[1] \/ (a[1] = b[1] /\ a[2] < b[2])

\* ORDER BY key DESC where key[i] = <<sort column, id>> of row i
RECURSIVE OrderDesc(_, _)
OrderDesc(S, key) ==
    IF S = {} THEN <<>>
    ELSE LET top == CHOOSE x \in S : \A y \in S \ {x} : PairBelow(key[y], key[x])
         IN  <<top>> \o OrderDesc(S \ {top}, key)

\* sortColumn: latestScore, ratingScore, else popularityScore
SortScore(row, sort) ==
    IF sort = "latest" THEN row.latestScore
    ELSE IF sort = "rating" THEN row.ratingScore
    ELSE row.popularityScore

\* a faulty cursor condition, for comparison: WHERE sortColumn < cursorScore
BelowCursorByScore(key, c) ==
    /\ c.first # <<>>
    /\ key[1] < c.first[1]

\* WHERE (sortColumn, id) < (cursorScore, cursorId); nothing is below NaN
BelowCursor(key, c) ==
    /\ c.first # <<>>
    /\ c.second # <<>>
    /\ PairBelow(key, <<c.first[1], c.second[1]>>)

\* hasMore, videosToReturn and nextCursor from the limit + 1 rows read
PageOf(results, key, limit) ==
    LET hasMore == Len(results) > limit
        videosToReturn == IF hasMore THEN SubSeq(results, 1, limit) ELSE results
    IN  [videos |-> videosToReturn,
         hasMore |-> hasMore,
         nextCursor |-> IF hasMore /\ Len(videosToReturn) > 0
                        THEN LET last == videosToReturn[Len(videosToReturn)]
                             IN  MakeCursor(key[last][1], key[last][2])
                        ELSE <<>>]

\* the explore query of the route and of TrendingService.getExplore: the
\* query builder keeps the condition of the last where() call
ExploreQuery(sort, filtered, source, cursor, limit) ==
    LET key == [i \in DOMAIN exploreIndex |-> <<SortScore(exploreIndex[i], sort), i>>]
        c == ParseCursor(cursor)
        where(i) == IF Len(cursor) > 0 THEN BelowCursor(key[i], c)
                    ELSE IF filtered THEN exploreIndex[i].source = source
                    ELSE TRUE
        results == FirstN(OrderDesc({i \in DOMAIN exploreIndex : where(i)}, key),
                          limit + 1)
    IN  PageOf(results, key, limit)

\* TrendingService.getExplore: source "all" is no filter
GetExplore(sort, source, cursor, limit) ==
    ExploreQuery(sort, source # "" /\ source # "all", source, cursor, limit)

\* buildCacheKey(sort, source, null)
BuildCacheKey(sort, source) ==
    "explore:" \o sort \o ":" \o (IF source = "" THEN "all" ELSE source) \o ":first"

\* createdAt.getTime(): a Date carries milliseconds
GetTime(createdAt) == createdAt \div TicksPerMs

\* AggregatorService.getVideosByCursor: (createdAt desc, id desc), the cursor
\* is `${createdAt.getTime()}:${id}`, read back as new Date(parseInt(..))
GetVideosByCursor(source, cursor, limit) ==
    LET key == [i \in DOMAIN videos |-> <<videos[i].createdAt, i>>]
        c == ParseCursor(cursor)
        cursorGiven == Len(cursor) > 0 /\ c.second # <<>> /\ c.second # <<0>>
        cursorTimestamp == IF c.first = <<>> THEN <<>> ELSE <<c.first[1] * TicksPerMs>>
        where(i) == /\ source # "" => videos[i].source = source
                    /\ cursorGiven =>
                           BelowCursor(key[i], [first |-> cursorTimestamp,
                                                second |-> c.second])
        results == FirstN(OrderDesc({i \in DOMAIN videos : where(i)}, key), limit + 1)
        page == PageOf(results, key, limit)
    IN  [page EXCEPT !.nextCursor =
             IF page.hasMore /\ Len(page.videos) > 0
             THEN LET last == page.videos[Len(page.videos)]
                  IN  MakeCursor(GetTime(videos[last].createdAt), last)
             ELSE <<>>]

\* sortBy of the videos-table explore
SortByTypes == {"latest", "popular", "hot"}

\* the column the videos-table explore orders by
SortByValue(i, sortBy) ==
    IF sortBy = "popular" THEN JoinedViewsTotal(i)
    ELSE IF sortBy = "hot" THEN JoinedViews24h(i)
    ELSE videos[i].createdAt

\* TrendingService.getExplore over videos LEFT JOIN video_stats: ordered by
\* sortBy, the cursor is `${createdAt.getTime()}:${id}` and its condition is
\* (created_at, id) < (cursorTimestamp, cursorId), whatever sortBy is; the
\* condition replaces the source filter
GetExploreByTimestamp(sortBy, source, cursor, limit) ==
    LET orderKey == [i \in DOMAIN videos |-> <<SortByValue(i, sortBy), i>>]
        timeKey == [i \in DOMAIN videos |-> <<videos[i].createdAt, i>>]
        c == ParseCursor(cursor)
        cursorGiven == Len(cursor) > 0 /\ c.second # <<>> /\ c.second # <<0>>
        cursorTimestamp == IF c.first = <<>> THEN <<>> ELSE <<c.first[1] * TicksPerMs>>
        where(i) == IF cursorGiven
                    THEN BelowCursor(timeKey[i], [first |-> cursorTimestamp,
                                                  second |-> c.second])
                    ELSE source # "" => videos[i].source = source
        results == FirstN(OrderDesc({i \in DOMAIN videos : where(i)}, orderKey),
                          limit + 1)
        page == PageOf(results, timeKey, limit)
    IN  [page EXCEPT !.nextCursor =
             IF page.hasMore /\ Len(page.videos) > 0
             THEN LET last == page.videos[Len(page.videos)]
                  IN  MakeCursor(GetTime(videos[last].createdAt), last)
             ELSE <<>>]

(***************************************************************************)
(* Specification of the view path: view events from both entry points, the *)
(* explore-index builder, and syncs of the viewed drama.                   *)
(***************************************************************************)
ViewedDrama == [source |-> "dramadash", id |-> "1", title |-> "X"]

InitViews ==
    /\ videos = <<>>
    /\ videoStats = <<>>
    /\ exploreIndex = <<>>
    /\ videosIdSeq = 0
    /\ statsIdSeq = 0
    /\ exploreIdSeq = 0
    /\ now = MaxClock
    /\ sync = [p \in SyncCallers |-> IdleFrame]
    /\ callsLeft = ViewSyncs
    /\ faultsLeft = 0
    /\ hist = InitHist
    /\ InitCache
    /\ view = [v \in Viewers |-> NewView]
    /\ rv = [r \in RecordViewCallers |-> NewRv]
    /\ builder = IdleBuilder(0)
    /\ runs = <<>>
    /\ home = NoHome
    /\ unique = <<>>
    /\ walk = [w \in Walkers |-> IdleWalk]
    /\ pageCache = <<>>
    /\ syncAll = IdleSyncAll
    /\ agg = IdleAgg
    /\ reply = NoReply
    /\ InitStreamIdle

NextViews ==
    \/ UpsertStart("s1", <<ViewedDrama>>)
    \/ UpsertSelect("s1")
    \/ UpsertUpdate("s1")
    \/ UpsertInsert("s1")
    \/ UpsertStats("s1")
    \/ \E v \in Viewers : ViewPost(v, ViewedDrama.source, ViewedDrama.id)
    \/ \E v \in Viewers : ViewZincrby(v)
    \/ \E v \in Viewers : ViewHotIncr(v)
    \/ \E v \in Viewers : ViewHotExpire(v)
    \/ \E v \in Viewers : ViewFind(v)
    \/ \E v \in Viewers : ViewRead(v)
    \/ \E v \in Viewers : ViewWrite(v)
    \/ \E r \in RecordViewCallers :
           RecordViewStart(r, ViewedDrama.source, ViewedDrama.id)
    \/ \E r \in RecordViewCallers : RecordViewZincrby(r)
    \/ \E r \in RecordViewCallers : RecordViewHotIncr(r)
    \/ \E r \in RecordViewCallers : RecordViewHotExpire(r)
    \/ \E r \in RecordViewCallers : RecordViewSelect(r)
    \/ \E r \in RecordViewCallers : RecordViewUpdate(r)
    \/ BuilderRead
    \/ \E e \in builder.entries : BuilderUpsert(e)

SpecViews == InitViews /\ [][NextViews]_vars


(***************************************************************************)
(* AggregatorService.syncSource: the home response of a source, combined   *)
(* and deduplicated, becomes the list handed to upsertVideos.              *)
(***************************************************************************)
\* NormalizedDrama, as far as the sync reads it
HomeDramas == [source : Sources, id : {"1"}, title : Titles]

RECURSIVE SeqsUpTo(_, _)
SeqsUpTo(S, n) ==
    IF n = 0 THEN {<<>>}
    ELSE LET shorter == SeqsUpTo(S, n - 1)
         IN  shorter \cup {Append(q, x) : q \in {r \in shorter : Len(r) = n - 1}, x \in S}

\* a section of HomeData; undefined when the adapter left it out
Undefined == [defined |-> FALSE, items |-> <<>>]
Sections ==
    {Undefined} \cup [defined : {TRUE}, items : SeqsUpTo(HomeDramas, MaxSection)]

\* ApiResponse<HomeData>: data is null when the fetch failed
NullData == [banners |-> Undefined, trending |-> Undefined, latest |-> Undefined]
HomeResponses ==
    {[isNull |-> TRUE, data |-> NullData]}
    \cup [isNull : {FALSE},
          data : [banners : Sections, trending : Sections, latest : Sections]]

\* (section || [])
OrEmpty(section) == IF section.defined THEN section.items ELSE <<>>

\* videos.filter(..) with the running `seen` set; key[v] is the key of v
RECURSIVE FilterUnseen(_, _, _, _)
FilterUnseen(list, key, i, seen) ==
    IF i > Len(list) THEN <<>>
    ELSE IF key[list[i]] \in seen
         THEN FilterUnseen(list, key, i + 1, seen)
         ELSE <<list[i]>> \o FilterUnseen(list, key, i + 1, seen \cup {key[list[i]]})

\* a faulty filter, for comparison: const key = v.id
dedupeVideosById(list) ==
    FilterUnseen(list, [v \in {list[i] : i \in DOMAIN list} |-> v.id], 1, {})

\* dedupeVideos: const key = `${v.source}:${v.id}`
dedupeVideos(list) ==
    FilterUnseen(list,
                 [v \in {list[i] : i \in DOMAIN list} |-> v.source \o ":" \o v.id],
                 1, {})

\* allVideos = [...banners, ...trending, ...latest]
AllVideos(data) ==
    OrEmpty(data.banners) \o OrEmpty(data.trending) \o OrEmpty(data.latest)

\* syncSource up to the call of upsertVideos(uniqueVideos); without data it
\* throws before anything is combined
SyncSourceCombine ==
    /\ home.pc = "fetched"
    /\ IF home.res.isNull
       THEN /\ home' = [home EXCEPT !.pc = "threw"]
            /\ UNCHANGED unique
       ELSE /\ home' = [home EXCEPT !.pc = "handed"]
            /\ unique' = dedupeVideos(AllVideos(home.res.data))
    /\ UNCHANGED <<storeVars, now, syncVars, cacheVars, viewVars, builderVars, walkVars,
                   serviceVars, streamVars>>

InitSyncSource ==
    /\ videos = <<>>
    /\ videoStats = <<>>
    /\ exploreIndex = <<>>
    /\ videosIdSeq = 0
    /\ statsIdSeq = 0
    /\ exploreIdSeq = 0
    /\ now = 0
    /\ sync = [p \in SyncCallers |-> IdleFrame]
    /\ callsLeft = 0
    /\ faultsLeft = 0
    /\ hist = InitHist
    /\ InitCache
    /\ view = [v \in Viewers |-> NewView]
    /\ rv = [r \in RecordViewCallers |-> NewRv]
    /\ builder = IdleBuilder(0)
    /\ runs = <<>>
    /\ home \in [pc : {"fetched"}, res : HomeResponses]
    /\ unique = <<>>
    /\ walk = [w \in Walkers |-> IdleWalk]
    /\ pageCache = <<>>
    /\ syncAll = IdleSyncAll
    /\ agg = IdleAgg
    /\ reply = NoReply
    /\ InitStreamIdle

NextSyncSource == SyncSourceCombine

SpecSyncSource == InitSyncSource /\ [][NextSyncSource]_vars



(***************************************************************************)
(* AggregatorService.syncAllSources: syncSource for each supported source  *)
(* in turn, each inside its own try/catch.                                 *)
(***************************************************************************)
\* what streamService.getHome(source) may answer: no data, or sections of
\* that source's dramas
SourceSections(source) ==
    {Undefined}
    \cup [defined : {TRUE},
          items : SeqsUpTo({d \in HomeDramas : d.source = source}, 1)]

SourceHomes(source) ==
    {[isNull |-> TRUE, data |-> NullData]}
    \cup [isNull : {FALSE},
          data : [banners : SourceSections(source),
                  trending : SourceSections(source),
                  latest : SourceSections(source)]]

SyncAllSource == SUPPORTED_SOURCES[syncAll.i]

\* POST /api/videos/sync: const errors = [], let totalSynced = 0
SyncAllStart ==
    /\ syncAll.pc \in {"idle", "returned"}
    /\ syncAll.runs < MaxSyncAll
    /\ syncAll' = [IdleSyncAll EXCEPT !.pc = "loop", !.i = 1,
                                      !.runs = syncAll.runs + 1]
    /\ UNCHANGED <<storeVars, now, syncVars, cacheVars, viewVars, builderVars,
                   homeVars, walkVars, streamVars, agg, reply>>

\* the loop enters syncSource(source), which awaits the home response
SyncAllGetHome(res) ==
    /\ syncAll.pc = "loop"
    /\ syncAll.i <= Len(SUPPORTED_SOURCES)
    /\ res \in SourceHomes(SyncAllSource)
    /\ home' = [pc |-> "fetched", res |-> res]
    /\ syncAll' = [syncAll EXCEPT
           !.pc = "source",
           !.attempted = Append(@, SyncAllSource),
           !.homes = Append(@, [source |-> SyncAllSource, isNull |-> res.isNull,
                                pairs |-> {<<d.source, d.id>> :
                                              d \in {AllVideos(res.data)[n] :
                                                        n \in DOMAIN AllVideos(res.data)}}])]
    /\ UNCHANGED <<storeVars, now, syncVars, cacheVars, viewVars, builderVars,
                   unique, walkVars, streamVars, agg, reply>>

\* syncSource calls upsertVideos(uniqueVideos), which returns at once for an
\* empty list
SyncSourceUpsert ==
    /\ syncAll.pc = "source"
    /\ home.pc = "handed"
    /\ ~Busy("s1")
    /\ home' = [home EXCEPT !.pc = "upserting"]
    /\ IF Len(unique) = 0
       THEN UNCHANGED <<sync, hist>>
       ELSE LET k == DramaKey(unique[1])
            IN  /\ sync' = [sync EXCEPT !["s1"] =
                       [IdleFrame EXCEPT !.pc = "select", !.list = unique, !.i = 1,
                                         !.afterFail = k \in hist.statsFailed]]
                /\ hist' = [hist EXCEPT
                       !.submitted[k] = @ \cup {unique[1].title},
                       !.batch = @ \cup {unique[n] : n \in DOMAIN unique}]
    /\ UNCHANGED <<storeVars, now, callsLeft, faultsLeft, cacheVars, viewVars,
                   builderVars, unique, walkVars, serviceVars, streamVars>>

\* the exception propagates out of syncAllSources
CatchAndRethrow(frame, source) ==
    [frame EXCEPT !.pc = "raised"]

\* catch (error) { errors.push(`${source}: ${msg}`) }, then the next source
CatchAndRecord(frame, source) ==
    [frame EXCEPT !.errors = Append(@, source), !.i = @ + 1, !.pc = "loop"]

\* syncSource threw: the loop's catch takes the exception
SyncAllCatch ==
    /\ syncAll.pc = "source"
    /\ home.pc = "threw"
    /\ syncAll' = CatchAndRecord(syncAll, SyncAllSource)
    /\ home' = [home EXCEPT !.pc = "caught"]
    /\ UNCHANGED <<storeVars, now, syncVars, cacheVars, viewVars, builderVars,
                   unique, walkVars, streamVars, agg, reply>>

\* upsertVideos returned: syncSource returns uniqueVideos.length, which is
\* added to totalSynced
SyncSourceReturn ==
    /\ syncAll.pc = "source"
    /\ home.pc = "upserting"
    /\ ~Busy("s1")
    /\ syncAll' = [syncAll EXCEPT !.totalSynced = @ + Len(unique), !.i = @ + 1,
                                  !.pc = "loop"]
    /\ home' = [home EXCEPT !.pc = "returned"]
    /\ UNCHANGED <<storeVars, now, syncVars, cacheVars, viewVars, builderVars,
                   unique, walkVars, streamVars, agg, reply>>

\* after the loop: invalidateHomeCache() (del never raises), then
\* return { synced: totalSynced, errors }
SyncAllReturn ==
    /\ syncAll.pc = "loop"
    /\ syncAll.i > Len(SUPPORTED_SOURCES)
    /\ syncAll' = [syncAll EXCEPT !.pc = "returned"]
    /\ UNCHANGED <<storeVars, now, syncVars, cacheVars, viewVars, builderVars,
                   homeVars, walkVars, streamVars, agg, reply>>

\* the store empty, no sync running
InitSyncing ==
    /\ videos = <<>>
    /\ videoStats = <<>>
    /\ exploreIndex = <<>>
    /\ videosIdSeq = 0
    /\ statsIdSeq = 0
    /\ exploreIdSeq = 0
    /\ now = MaxClock
    /\ sync = [p \in SyncCallers |-> IdleFrame]
    /\ callsLeft = 0
    /\ hist = InitHist
    /\ InitCache
    /\ view = [v \in Viewers |-> NewView]
    /\ rv = [r \in RecordViewCallers |-> NewRv]
    /\ builder = IdleBuilder(0)
    /\ runs = <<>>
    /\ home = [pc |-> "none", res |-> [isNull |-> TRUE, data |-> NullData]]
    /\ unique = <<>>
    /\ walk = [w \in Walkers |-> IdleWalk]
    /\ pageCache = <<>>
    /\ syncAll = IdleSyncAll
    /\ agg = IdleAgg
    /\ reply = NoReply
    /\ InitStreamIdle

InitSyncAll ==
    /\ InitSyncing
    /\ faultsLeft = 0

NextSyncAll ==
    \/ SyncAllStart
    \/ \E source \in Sources : \E res \in SourceHomes(source) : SyncAllGetHome(res)
    \/ (syncAll.pc = "source" /\ SyncSourceCombine)
    \/ SyncAllCatch
    \/ SyncSourceUpsert
    \/ UpsertSelect("s1")
    \/ UpsertUpdate("s1")
    \/ UpsertInsert("s1")
    \/ UpsertStats("s1")
    \/ SyncSourceReturn
    \/ SyncAllReturn

SpecSyncAll == InitSyncAll /\ [][NextSyncAll]_vars

\* the same calls while a store statement of upsertVideos may fail
InitSyncFaults ==
    /\ InitSyncing
    /\ faultsLeft = MaxFaults

NextSyncFaults ==
    \/ NextSyncAll
    \/ UpsertFault("s1")

SpecSyncFaults == InitSyncFaults /\ [][NextSyncFaults]_vars


(***************************************************************************)
(* One upsertVideos call with a batch of several dramas, on an empty store *)
(* or on one that already holds a drama, with a failing store statement.   *)
(***************************************************************************)
\* normalizedVideos: lists of distinct (source, id) pairs (the list handed
\* over by syncSource is deduplicated)
RECURSIVE DistinctLists(_, _)
DistinctLists(S, n) ==
    IF n = 0 THEN {<<>>}
    ELSE LET shorter == DistinctLists(S, n - 1)
         IN  shorter
             \cup {Append(l, d) : l \in {x \in shorter : Len(x) = n - 1},
                                  d \in S}

Batches ==
    {l \in DistinctLists(Dramas, MaxBatch) :
        /\ Len(l) >= 2
        /\ \A i, j \in DOMAIN l : i # j => DramaKey(l[i]) # DramaKey(l[j])}

\* the row and stats row an earlier sync of dramadash:1 left
SyncedBefore ==
    /\ videos = Put(<<>>, 1, [source |-> SUPPORTED_SOURCES[1], externalId |-> "1",
                              title |-> "X", createdAt |-> 0, updatedAt |-> JsDate(0)])
    /\ videoStats = Put(<<>>, 1, [videoId |-> 1, viewsTotal |-> 0, views24h |-> 0])
    /\ videosIdSeq = 1
    /\ statsIdSeq = 1

InitBatch ==
    /\ \/ /\ videos = <<>>
          /\ videoStats = <<>>
          /\ videosIdSeq = 0
          /\ statsIdSeq = 0
       \/ SyncedBefore
    /\ exploreIndex = <<>>
    /\ exploreIdSeq = 0
    /\ now = MaxClock
    /\ sync = [p \in SyncCallers |-> IdleFrame]
    /\ callsLeft = 1
    /\ faultsLeft = MaxFaults
    /\ hist = InitHist
    /\ InitCache
    /\ view = [v \in Viewers |-> NewView]
    /\ rv = [r \in RecordViewCallers |-> NewRv]
    /\ builder = IdleBuilder(0)
    /\ runs = <<>>
    /\ home = NoHome
    /\ unique = <<>>
    /\ walk = [w \in Walkers |-> IdleWalk]
    /\ pageCache = <<>>
    /\ syncAll = IdleSyncAll
    /\ agg = IdleAgg
    /\ reply = NoReply
    /\ InitStreamIdle

NextBatch ==
    \/ \E l \in Batches : UpsertStart("s1", l)
    \/ UpsertSelect("s1")
    \/ UpsertUpdate("s1")
    \/ UpsertInsert("s1")
    \/ UpsertStats("s1")
    \/ UpsertFault("s1")

SpecBatch == InitBatch /\ [][NextBatch]_vars


(***************************************************************************)
(* StreamService.getAggregatedHome: Promise.allSettled over one promise    *)
(* per supported source (getAdapter, then adapter.getHome()).              *)
(***************************************************************************)
PendingResult == [status |-> "pending", isNull |-> TRUE, data |-> NullData]
Rejected == [status |-> "rejected", isNull |-> TRUE, data |-> NullData]
Fulfilled(res) == [status |-> "fulfilled", isNull |-> res.isNull, data |-> res.data]

\* a faulty filter, for comparison: r.status === "fulfilled" alone
RECURSIVE FulfilledOnly(_, _)
FulfilledOnly(results, n) ==
    IF n > Len(results) THEN <<>>
    ELSE (IF results[n].status = "fulfilled"
          THEN <<[source |-> SUPPORTED_SOURCES[n], data |-> results[n].data]>>
          ELSE <<>>)
         \o FulfilledOnly(results, n + 1)

\* results.filter(r => r.status === "fulfilled" && r.value.data !== null)
\*        .map(r => ({ source: r.value.source, data: r.value.data }))
RECURSIVE FulfilledWithData(_, _)
FulfilledWithData(results, n) ==
    IF n > Len(results) THEN <<>>
    ELSE (IF results[n].status = "fulfilled" /\ ~results[n].isNull
          THEN <<[source |-> SUPPORTED_SOURCES[n], data |-> results[n].data]>>
          ELSE <<>>)
         \o FulfilledWithData(results, n + 1)

\* the call maps the sources to promises, all pending
AggStart ==
    /\ agg.pc \in {"idle", "returned"}
    /\ agg.calls < MaxAggCalls
    /\ agg' = [agg EXCEPT !.pc = "pending",
                          !.calls = @ + 1,
                          !.results = [n \in DOMAIN SUPPORTED_SOURCES |-> PendingResult],
                          !.response = IdleAgg.response]
    /\ UNCHANGED <<storeVars, now, syncVars, cacheVars, viewVars, builderVars,
                   homeVars, walkVars, streamVars, syncAll, reply>>

\* getAdapter(source) rejects: init() of a new adapter raises, so the
\* adapter is not cached
AggInitRaises(n) ==
    /\ agg.pc = "pending"
    /\ agg.results[n].status = "pending"
    /\ SUPPORTED_SOURCES[n] \notin agg.adapterCache
    /\ agg' = [agg EXCEPT !.results[n] = Rejected]
    /\ UNCHANGED <<storeVars, now, syncVars, cacheVars, viewVars, builderVars,
                   homeVars, walkVars, streamVars, syncAll, reply>>

\* the adapter is there (cached, or initialised and cached now) and its
\* getHome() raises
AggGetHomeRaises(n) ==
    /\ agg.pc = "pending"
    /\ agg.results[n].status = "pending"
    /\ agg' = [agg EXCEPT !.results[n] = Rejected,
                          !.adapterCache = @ \cup {SUPPORTED_SOURCES[n]}]
    /\ UNCHANGED <<storeVars, now, syncVars, cacheVars, viewVars, builderVars,
                   homeVars, walkVars, streamVars, syncAll, reply>>

\* the adapter's getHome() answers, with data or with data: null
AggGetHome(n, res) ==
    /\ agg.pc = "pending"
    /\ agg.results[n].status = "pending"
    /\ res \in SourceHomes(SUPPORTED_SOURCES[n])
    /\ agg' = [agg EXCEPT !.results[n] = Fulfilled(res),
                          !.adapterCache = @ \cup {SUPPORTED_SOURCES[n]}]
    /\ UNCHANGED <<storeVars, now, syncVars, cacheVars, viewVars, builderVars,
                   homeVars, walkVars, streamVars, syncAll, reply>>

\* allSettled resolves when no promise is pending; the filter and map give
\* the response
AggReturn ==
    /\ agg.pc = "pending"
    /\ \A n \in DOMAIN agg.results : agg.results[n].status # "pending"
    /\ agg' = [agg EXCEPT !.pc = "returned",
                          !.response = [status |-> 200,
                                        sources |-> FulfilledWithData(agg.results, 1)]]
    /\ UNCHANGED <<storeVars, now, syncVars, cacheVars, viewVars, builderVars,
                   homeVars, walkVars, streamVars, syncAll, reply>>

InitAgg ==
    /\ videos = <<>>
    /\ videoStats = <<>>
    /\ exploreIndex = <<>>
    /\ videosIdSeq = 0
    /\ statsIdSeq = 0
    /\ exploreIdSeq = 0
    /\ now = 0
    /\ sync = [p \in SyncCallers |-> IdleFrame]
    /\ callsLeft = 0
    /\ faultsLeft = 0
    /\ hist = InitHist
    /\ InitCache
    /\ view = [v \in Viewers |-> NewView]
    /\ rv = [r \in RecordViewCallers |-> NewRv]
    /\ builder = IdleBuilder(0)
    /\ runs = <<>>
    /\ home = NoHome
    /\ unique = <<>>
    /\ walk = [w \in Walkers |-> IdleWalk]
    /\ pageCache = <<>>
    /\ syncAll = IdleSyncAll
    /\ agg = IdleAgg
    /\ reply = NoReply
    /\ InitStreamIdle

NextAgg ==
    \/ AggStart
    \/ \E n \in DOMAIN SUPPORTED_SOURCES :
          \/ AggInitRaises(n)
          \/ AggGetHomeRaises(n)
          \/ \E res \in SourceHomes(SUPPORTED_SOURCES[n]) : AggGetHome(n, res)
    \/ AggReturn

SpecAgg == InitAgg /\ [][NextAgg]_vars


(***************************************************************************)
(* View recordings of one drama, synced before or never synced: requests   *)
(* to POST /api/events/view and calls of recordView, interleaved.          *)
(***************************************************************************)
InitRecord ==
    /\ \/ /\ videos = <<>>
          /\ videoStats = <<>>
          /\ videosIdSeq = 0
          /\ statsIdSeq = 0
       \/ SyncedBefore
    /\ exploreIndex = <<>>
    /\ exploreIdSeq = 0
    /\ now = MaxClock
    /\ sync = [p \in SyncCallers |-> IdleFrame]
    /\ callsLeft = 0
    /\ faultsLeft = 0
    /\ hist = InitHist
    /\ InitCache
    /\ view = [v \in Viewers |-> NewView]
    /\ rv = [r \in RecordViewCallers |-> NewRv]
    /\ builder = IdleBuilder(0)
    /\ runs = <<>>
    /\ home = NoHome
    /\ unique = <<>>
    /\ walk = [w \in Walkers |-> IdleWalk]
    /\ pageCache = <<>>
    /\ syncAll = IdleSyncAll
    /\ agg = IdleAgg
    /\ reply = NoReply
    /\ InitStreamIdle

NextRecord ==
    \/ \E v \in Viewers : ViewPost(v, ViewedDrama.source, ViewedDrama.id)
    \/ \E v \in Viewers : ViewZincrby(v)
    \/ \E v \in Viewers : ViewHotIncr(v)
    \/ \E v \in Viewers : ViewHotExpire(v)
    \/ \E v \in Viewers : ViewFind(v)
    \/ \E v \in Viewers : ViewRead(v)
    \/ \E v \in Viewers : ViewWrite(v)
    \/ \E r \in RecordViewCallers :
           RecordViewStart(r, ViewedDrama.source, ViewedDrama.id)
    \/ \E r \in RecordViewCallers : RecordViewZincrby(r)
    \/ \E r \in RecordViewCallers : RecordViewHotIncr(r)
    \/ \E r \in RecordViewCallers : RecordViewHotExpire(r)
    \/ \E r \in RecordViewCallers : RecordViewSelect(r)
    \/ \E r \in RecordViewCallers : RecordViewUpdate(r)

SpecRecord == InitRecord /\ [][NextRecord]_vars


(***************************************************************************)
(* The listings and recordView with the cache backend in any of its three  *)
(* conditions: available, not configured, or failing on every call.        *)
(***************************************************************************)
RedisModes == {"ok", "unconfigured", "failing"}

\* CacheService.getCachedAllVideos / setCachedAllVideos / invalidateHomeCache
\* and the score incrementViewCount returns
GetCachedAllVideos == Guarded(redis, allVideosCache, NoCached)
SetCachedAllVideos(response) == Guarded(redis, TRUE, FALSE)
InvalidateHomeCache == Guarded(redis, TRUE, FALSE)
IncrementViewCountScore(videoKey) ==
    Guarded(redis, IncrementViewCount(trendingSet, videoKey)[videoKey], 0)
RecordHotView(videoKey) ==
    Guarded(redis, HotViewIncr(hourBuckets, videoKey, hour), hourBuckets)

SkipN(q, n) == SubSeq(q, n + 1, Len(q))

\* getAllVideos' query: where(source), orderBy(desc(updatedAt)), limit, offset
AllVideosQuery(limit, offset, source) ==
    LET rows == {i \in DOMAIN videos : source = "" \/ videos[i].source = source}
        rank == [i \in rows |-> videos[i].updatedAt]
    IN  {[n \in 1..Len(FirstN(SkipN(q, offset), limit)) |->
             [key |-> RowKey(SkipN(q, offset)[n]),
              score |-> JoinedViewsTotal(SkipN(q, offset)[n])]]
           : q \in Descending(rows, rank)}

ReplyOf(op, raised, list, total, limit, offset, source) ==
    [op |-> op, raised |-> raised, videos |-> list, total |-> total,
     limit |-> limit, offset |-> offset, source |-> source]

\* AggregatorService.getAllVideos({limit, offset, source, cached})
GetAllVideosCall(limit, offset, source, cached) ==
    LET useCache == cached /\ source = ""
        got == GetCachedAllVideos
        total == Cardinality(DOMAIN videos)
    IN  /\ IF useCache /\ got.raised
           THEN /\ reply' = ReplyOf("getAllVideos", TRUE, <<>>, 0, limit, offset, source)
                /\ UNCHANGED allVideosCache
           ELSE IF useCache /\ ~got.value.isNull
           THEN /\ reply' = ReplyOf("getAllVideos", FALSE, got.value.videos,
                                    got.value.total, limit, offset, source)
                /\ UNCHANGED allVideosCache
           ELSE \E list \in AllVideosQuery(limit, offset, source) :
                   LET response == [isNull |-> FALSE, videos |-> list, total |-> total]
                   IN  /\ reply' = ReplyOf("getAllVideos",
                                           useCache /\ SetCachedAllVideos(response).raised,
                                           list, total, limit, offset, source)
                       /\ allVideosCache' =
                              IF useCache
                              THEN Guarded(redis, response, allVideosCache).value
                              ELSE allVideosCache
        /\ UNCHANGED <<storeVars, now, syncVars, trendingSet, hotSet, hourBuckets, hour,
                       redis, viewVars, builderVars, homeVars, walkVars, streamVars,
                       syncAll, agg>>

\* AggregatorService.getTrending(limit)
GetTrendingCall(limit) ==
    /\ \E result \in GetTrending(limit) :
           reply' = ReplyOf("getTrending", result.raised, result.videos, 0, limit, 0, "")
    /\ UNCHANGED <<storeVars, now, syncVars, cacheVars, viewVars, builderVars,
                   homeVars, walkVars, streamVars, syncAll, agg>>

\* AggregatorService.getHot(limit)
GetHotCall(limit) ==
    /\ \E list \in GetHot(limit) :
           reply' = ReplyOf("getHot", HotScoresCall(limit).raised,
                            [n \in DOMAIN list |->
                                [key |-> list[n].key, score |-> list[n].views24h]],
                            0, limit, 0, "")
    /\ UNCHANGED <<storeVars, now, syncVars, cacheVars, viewVars, builderVars,
                   homeVars, walkVars, streamVars, syncAll, agg>>

ListLimits == 1..2

InitNoCache ==
    /\ \/ /\ videos = <<>>
          /\ videoStats = <<>>
          /\ videosIdSeq = 0
          /\ statsIdSeq = 0
       \/ SyncedBefore
    /\ exploreIndex = <<>>
    /\ exploreIdSeq = 0
    /\ now = MaxClock
    /\ sync = [p \in SyncCallers |-> IdleFrame]
    /\ callsLeft = 1
    /\ faultsLeft = 0
    /\ hist = InitHist
    /\ trendingSet = <<>>
    /\ hotSet = <<>>
    /\ hourBuckets = <<>>
    /\ hour = 0
    /\ redis \in RedisModes
    /\ allVideosCache = NoCached
    /\ view = [v \in Viewers |-> NewView]
    /\ rv = [r \in RecordViewCallers |-> NewRv]
    /\ builder = IdleBuilder(0)
    /\ runs = <<>>
    /\ home = NoHome
    /\ unique = <<>>
    /\ walk = [w \in Walkers |-> IdleWalk]
    /\ pageCache = <<>>
    /\ syncAll = IdleSyncAll
    /\ agg = IdleAgg
    /\ reply = NoReply
    /\ InitStreamIdle

NextNoCache ==
    \/ \E l \in RaceLists : UpsertStart("s1", l)
    \/ UpsertSelect("s1")
    \/ UpsertUpdate("s1")
    \/ UpsertInsert("s1")
    \/ UpsertStats("s1")
    \/ \E r \in RecordViewCallers :
           RecordViewStart(r, ViewedDrama.source, ViewedDrama.id)
    \/ \E r \in RecordViewCallers : RecordViewZincrby(r)
    \/ \E r \in RecordViewCallers : RecordViewHotIncr(r)
    \/ \E r \in RecordViewCallers : RecordViewHotExpire(r)
    \/ \E r \in RecordViewCallers : RecordViewSelect(r)
    \/ \E r \in RecordViewCallers : RecordViewUpdate(r)
    \/ \E limit \in ListLimits, offset \in 0..1, source \in Sources \cup {""},
          cached \in BOOLEAN : GetAllVideosCall(limit, offset, source, cached)
    \/ \E limit \in ListLimits : GetTrendingCall(limit)
    \/ \E limit \in ListLimits : GetHotCall(limit)

SpecNoCache == InitNoCache /\ [][NextNoCache]_vars

(***************************************************************************)
(* Clients walking a paginated view: the first request carries no cursor,  *)
(* each later one the nextCursor of the page before, until hasMore = false.*)
(***************************************************************************)
Drop(f, k) == [x \in DOMAIN f \ {k} |-> f[x]]

SortTypes == {"popular", "latest", "rating"}

WalkStart(w, via, sort, limit, source) ==
    /\ walk[w].pc = "idle"
    /\ \A o \in Walkers : walk[o].pc # "paging"
    /\ LET ids == IF via \in {"getVideosByCursor", "getExploreByTimestamp"}
                  THEN DOMAIN videos
                  ELSE DOMAIN exploreIndex
       IN  /\ limit \in 1..Cardinality(ids)
           /\ walk' = [walk EXCEPT ![w] =
                  [IdleWalk EXCEPT !.pc = "paging", !.via = via, !.sort = sort,
                                   !.source = source, !.limit = limit,
                                   !.startIds = ids]]
    /\ UNCHANGED <<storeVars, now, syncVars, cacheVars, viewVars, builderVars,
                   homeVars, pageCache, serviceVars, streamVars>>

\* the client keeps the page and follows its nextCursor
TakePage(w, page) ==
    walk' = [walk EXCEPT ![w] =
        [@ EXCEPT !.got = @ \o page.videos,
                  !.cursor = page.nextCursor,
                  !.pc = IF page.hasMore THEN "paging" ELSE "done"]]

\* GET /api/videos/explore: a first page is served from the cache when it is
\* there, and cached when it was computed
ExploreRouteGet(w) ==
    /\ walk[w].pc = "paging"
    /\ walk[w].via = "route"
    /\ LET limit == IF walk[w].limit < ROUTE_MAX_LIMIT THEN walk[w].limit
                    ELSE ROUTE_MAX_LIMIT
           first == Len(walk[w].cursor) = 0
           cacheKey == BuildCacheKey(walk[w].sort, walk[w].source)
           cached == first /\ cacheKey \in DOMAIN pageCache
           result == IF cached THEN pageCache[cacheKey]
                     ELSE ExploreQuery(walk[w].sort, walk[w].source # "",
                                       walk[w].source, walk[w].cursor, limit)
       IN  /\ pageCache' = IF first /\ ~cached
                           THEN Put(pageCache, cacheKey, result)
                           ELSE pageCache
           /\ TakePage(w, result)
    /\ UNCHANGED <<storeVars, now, syncVars, cacheVars, viewVars, builderVars, homeVars,
                   serviceVars, streamVars>>

\* the cached first page outlives CACHE_TTL
PageCacheExpire(cacheKey) ==
    /\ cacheKey \in DOMAIN pageCache
    /\ pageCache' = Drop(pageCache, cacheKey)
    /\ UNCHANGED <<storeVars, now, syncVars, cacheVars, viewVars, builderVars,
                   homeVars, walk, serviceVars, streamVars>>

\* a page through TrendingService.getExplore
GetExploreCall(w) ==
    /\ walk[w].pc = "paging"
    /\ walk[w].via = "getExplore"
    /\ TakePage(w, GetExplore(walk[w].sort, walk[w].source, walk[w].cursor,
                              walk[w].limit))
    /\ UNCHANGED <<storeVars, now, syncVars, cacheVars, viewVars, builderVars,
                   homeVars, pageCache, serviceVars, streamVars>>

\* a page through AggregatorService.getVideosByCursor
GetVideosByCursorCall(w) ==
    /\ walk[w].pc = "paging"
    /\ walk[w].via = "getVideosByCursor"
    /\ TakePage(w, GetVideosByCursor(walk[w].source, walk[w].cursor, walk[w].limit))
    /\ UNCHANGED <<storeVars, now, syncVars, cacheVars, viewVars, builderVars,
                   homeVars, pageCache, serviceVars, streamVars>>

(***************************************************************************)
(* Specifications of the paginated views.  The store starts as MaxRows     *)
(* synced dramas, some of them viewed, and the index built from them.      *)
(***************************************************************************)
ViewCounts == {0, 1}
CreatedSeconds == {0, 1}

\* the i-th drama synced: the sources take turns
RowDrama(i) ==
    [source |-> SUPPORTED_SOURCES[((i - 1) % Len(SUPPORTED_SOURCES)) + 1],
     id |-> ToString(((i - 1) \div Len(SUPPORTED_SOURCES)) + 1),
     title |-> "X"]

InitPaged(instants) ==
    /\ \E created \in [1..MaxRows -> instants], views \in [1..MaxRows -> ViewCounts] :
        /\ \A i, j \in 1..MaxRows : i < j => created[i] <= created[j]
        /\ videos = [i \in 1..MaxRows |->
                        [source |-> RowDrama(i).source, externalId |-> RowDrama(i).id,
                         title |-> RowDrama(i).title, createdAt |-> created[i],
                         updatedAt |-> JsDate(created[i])]]
        /\ videoStats = [i \in 1..MaxRows |->
                            [videoId |-> i, viewsTotal |-> views[i],
                             views24h |-> views[i]]]
        /\ now = created[MaxRows]
    /\ exploreIndex = [i \in 1..MaxRows |->
                          CHOOSE e \in IndexEntries :
                              createVideoKey(e.source, e.externalId) = RowKey(i)]
    /\ videosIdSeq = MaxRows
    /\ statsIdSeq = MaxRows
    /\ exploreIdSeq = MaxRows
    /\ sync = [p \in SyncCallers |-> IdleFrame]
    /\ faultsLeft = 0
    /\ hist = InitHist
    /\ InitCache
    /\ view = [v \in Viewers |-> NewView]
    /\ rv = [r \in RecordViewCallers |-> NewRv]
    /\ builder = IdleBuilder(MaxBuilds - 1)
    /\ runs = <<>>
    /\ home = NoHome
    /\ unique = <<>>
    /\ walk = [w \in Walkers |-> IdleWalk]
    /\ pageCache = <<>>
    /\ syncAll = IdleSyncAll
    /\ agg = IdleAgg
    /\ reply = NoReply
    /\ InitStreamIdle

\* a static index: clients walk the explore route and getExplore
InitExplore ==
    /\ InitPaged({sec * MS_PER_SECOND * TicksPerMs : sec \in CreatedSeconds})
    /\ callsLeft = 0

NextExplore ==
    \/ \E w \in Walkers, via \in {"route", "getExplore"}, sort \in SortTypes,
          limit \in 1..MaxRows : WalkStart(w, via, sort, limit, "")
    \/ \E w \in Walkers : ExploreRouteGet(w)
    \/ \E w \in Walkers : GetExploreCall(w)
    \/ \E k \in DOMAIN pageCache : PageCacheExpire(k)

SpecExplore == InitExplore /\ [][NextExplore]_vars

\* a page through the videos-table TrendingService.getExplore (sortBy)
GetExploreByTimestampCall(w) ==
    /\ walk[w].pc = "paging"
    /\ walk[w].via = "getExploreByTimestamp"
    /\ TakePage(w, GetExploreByTimestamp(walk[w].sort, walk[w].source,
                                         walk[w].cursor, walk[w].limit))
    /\ UNCHANGED <<storeVars, now, syncVars, cacheVars, viewVars, builderVars,
                   homeVars, pageCache, serviceVars, streamVars>>

\* one client walks any of the cursor-paginated views of a static store
NextCursors ==
    \/ \E via \in {"route", "getExplore", "getVideosByCursor", "getExploreByTimestamp"},
          sort \in SortTypes \cup SortByTypes, limit \in 1..MaxRows :
           /\ via \in {"route", "getExplore"} => sort \in SortTypes
           /\ via = "getVideosByCursor" => sort = "latest"
           /\ via = "getExploreByTimestamp" => sort \in SortByTypes
           /\ WalkStart("w1", via, sort, limit, "")
    \/ ExploreRouteGet("w1")
    \/ GetExploreCall("w1")
    \/ GetVideosByCursorCall("w1")
    \/ GetExploreByTimestampCall("w1")

SpecCursors == InitExplore /\ [][NextCursors]_vars

\* the cached getAllVideos response outlives TTL.ALL_VIDEOS
AllVideosCacheExpires ==
    /\ ~allVideosCache.isNull
    /\ allVideosCache' = NoCached
    /\ UNCHANGED <<storeVars, now, syncVars, trendingSet, hotSet, hourBuckets, hour,
                   redis, viewVars, builderVars, elsewhere>>

\* listings of a static store through getAllVideos, as GET /api/videos/all
\* and its other callers issue them
NextListing ==
    \/ \E limit \in ListLimits, offset \in 0..1, source \in Sources \cup {""},
          cached \in BOOLEAN : GetAllVideosCall(limit, offset, source, cached)
    \/ AllVideosCacheExpires

SpecListing == InitExplore /\ [][NextListing]_vars

\* GET /api/videos/trending over explore_index: the rows are cached under
\* the one key "trending:top", and a cached list is cut to the limit asked for
TrendingRouteGet(limit) ==
    LET lim == IF limit < ROUTE_MAX_LIMIT THEN limit ELSE ROUTE_MAX_LIMIT
        CACHE_KEY == "trending:top"
        cached == Guarded(redis, CACHE_KEY \in DOMAIN pageCache, FALSE).value
        key == [i \in DOMAIN exploreIndex |-> <<exploreIndex[i].popularityScore, i>>]
        rows == FirstN(OrderDesc(DOMAIN exploreIndex, key), lim)
    IN  /\ IF cached
           THEN /\ reply' = ReplyOf("trendingRoute", FALSE,
                                    FirstN(pageCache[CACHE_KEY], lim),
                                    Min(Len(pageCache[CACHE_KEY]), lim), limit, 0, "")
                /\ UNCHANGED pageCache
           ELSE /\ reply' = ReplyOf("trendingRoute", FALSE, rows, Len(rows),
                                    limit, 0, "")
                /\ pageCache' = Guarded(redis, Put(pageCache, CACHE_KEY, rows),
                                        pageCache).value
        /\ UNCHANGED <<storeVars, now, syncVars, cacheVars, viewVars, builderVars,
                       homeVars, walk, streamVars, syncAll, agg>>

\* requests for the trending rows of a static index
NextTrendingRoute ==
    \/ \E limit \in 1..MaxRows : TrendingRouteGet(limit)
    \/ \E k \in DOMAIN pageCache : PageCacheExpire(k)

SpecTrendingRoute == InitExplore /\ [][NextTrendingRoute]_vars

\* one client walks a view with a source filter
NextFiltered ==
    \/ \E via \in {"route", "getExplore", "getVideosByCursor"}, sort \in SortTypes,
          limit \in 1..MaxRows, source \in Sources :
           /\ via = "getVideosByCursor" => sort = "latest"
           /\ WalkStart("w1", via, sort, limit, source)
    \/ ExploreRouteGet("w1")
    \/ GetExploreCall("w1")
    \/ GetVideosByCursorCall("w1")
    \/ \E k \in DOMAIN pageCache : PageCacheExpire(k)

SpecFiltered == InitExplore /\ [][NextFiltered]_vars

\* a walk while one more drama is synced and the index is rebuilt
InitInserts ==
    /\ InitPaged(0..MaxClock)
    /\ callsLeft = 1

NextInserts ==
    \/ \E via \in {"getExplore", "getVideosByCursor"}, sort \in SortTypes,
          limit \in 1..MaxRows :
           /\ via = "getVideosByCursor" => sort = "latest"
           /\ WalkStart("w1", via, sort, limit, "")
    \/ GetExploreCall("w1")
    \/ GetVideosByCursorCall("w1")
    \/ UpsertStart("s1", <<RowDrama(MaxRows + 1)>>)
    \/ UpsertSelect("s1")
    \/ UpsertInsert("s1")
    \/ UpsertStats("s1")
    \/ BuilderRead
    \/ \E e \in builder.entries : BuilderUpsert(e)

SpecInserts == InitInserts /\ [][NextInserts]_vars


(***************************************************************************)
(* The explore-index builder on a store nobody writes: runs one after the  *)
(* other, the index empty at first.                                        *)
(***************************************************************************)
InitBuilder ==
    /\ \E created \in [1..MaxRows -> {sec * MS_PER_SECOND * TicksPerMs :
                                         sec \in CreatedSeconds}],
          withStats \in SUBSET (1..MaxRows) :
        \E views \in [withStats -> ViewCounts] :
            /\ \A i, j \in 1..MaxRows : i < j => created[i] <= created[j]
            /\ videos = [i \in 1..MaxRows |->
                            [source |-> RowDrama(i).source, externalId |-> RowDrama(i).id,
                             title |-> RowDrama(i).title, createdAt |-> created[i],
                             updatedAt |-> JsDate(created[i])]]
            /\ videoStats =
                   [j \in 1..Cardinality(withStats) |->
                       LET i == CHOOSE x \in withStats :
                                    Cardinality({y \in withStats : y < x}) = j - 1
                       IN  [videoId |-> i, viewsTotal |-> views[i],
                            views24h |-> views[i]]]
            /\ statsIdSeq = Cardinality(withStats)
            /\ now = created[MaxRows]
    /\ exploreIndex = <<>>
    /\ videosIdSeq = MaxRows
    /\ exploreIdSeq = 0
    /\ sync = [p \in SyncCallers |-> IdleFrame]
    /\ callsLeft = 0
    /\ faultsLeft = 0
    /\ hist = InitHist
    /\ InitCache
    /\ view = [v \in Viewers |-> NewView]
    /\ rv = [r \in RecordViewCallers |-> NewRv]
    /\ builder = IdleBuilder(0)
    /\ runs = <<>>
    /\ home = NoHome
    /\ unique = <<>>
    /\ walk = [w \in Walkers |-> IdleWalk]
    /\ pageCache = <<>>
    /\ syncAll = IdleSyncAll
    /\ agg = IdleAgg
    /\ reply = NoReply
    /\ InitStreamIdle

NextBuilder ==
    \/ BuilderRead
    \/ \E e \in builder.entries : BuilderUpsert(e)

SpecBuilder == InitBuilder /\ [][NextBuilder]_vars

(***************************************************************************)
(* The adapters and StreamService: drama and episode lookups.  A field of  *)
(* an upstream payload is <<>> when absent and <<value>> when present; a   *)
(* string is a sequence of characters.                                     *)
(***************************************************************************)
MaxEpisodes == 2     \* episodes of an upstream drama
MaxEpisodeNumber == 3 \* largest episode number a request asks for

ExplicitNumbers == {<<>>, <<0>>, <<2>>}
SerialNumbers == {<<>>, <<3>>}
ChapterIndexes == {<<>>, <<4>>}
ChapterNames == {<<>>, <<"E", "P", " ", "1">>, <<"T", "r", "a", "i", "l", "e", "r">>}
RawEpisodes ==
    [episodeNumber : ExplicitNumbers, serialNumber : SerialNumbers,
     chapterIndex : ChapterIndexes, chapterName : ChapterNames]

\* what a drama fetch meets: a timeout, a non-2xx status, a body that is not
\* the documented payload, or the payload with its episode list
UpstreamFailures == {"timeout", "non2xx", "malformed"}
UpstreamAnswers ==
    [outcome : UpstreamFailures, episodes : {<<>>}]
    \cup [outcome : {"ok"}, episodes : SeqsUpTo(RawEpisodes, MaxEpisodes)]

\* chapterName.match(/\d+/): the first run of digits, <<>> when there is none
FirstDigits(chars) ==
    IF \A i \in DOMAIN chars : ~IsDigit(chars[i]) THEN <<>>
    ELSE LET at == CHOOSE i \in DOMAIN chars :
                       IsDigit(chars[i]) /\ \A j \in 1..(i - 1) : ~IsDigit(chars[j])
         IN  <<ParseDigits(chars, at, 0)>>

\* a || b on optional numbers: undefined and 0 are falsy
Truthy(n) == n # <<>> /\ n # <<0>>

\* DramaBoxAdapter.transformEpisodeList, the episode number of ep at the
\* zero-based position index
EpisodeNumberOf(ep, index) ==
    LET episodeNumber ==
            IF Truthy(ep.episodeNumber) THEN ep.episodeNumber[1]
            ELSE IF Truthy(ep.serialNumber) THEN ep.serialNumber[1]
            ELSE IF ep.chapterIndex # <<>> THEN ep.chapterIndex[1] + 1
            ELSE index + 1
        match == FirstDigits(ep.chapterName)
    IN  IF ep.chapterName # <<>> /\ match # <<>> THEN match[1] ELSE episodeNumber

transformEpisodeList(episodes) ==
    [i \in DOMAIN episodes |->
        [id |-> i, episodeNumber |-> <<EpisodeNumberOf(episodes[i], i - 1)>>]]

\* DramaDashAdapter.transformEpisode: episodeNumber: ep.episodeNumber
transformEpisode(episodes) ==
    [i \in DOMAIN episodes |-> [id |-> i, episodeNumber |-> episodes[i].episodeNumber]]

\* the ApiResponse envelopes
Envelope(status, error, episodes) ==
    [status |-> status, error |-> error, isNull |-> status # 200, episodes |-> episodes]

\* adapter.getDrama(id): every failure is caught and answered with status 500
\* and data: null.  DramaDash reads res.drama.episodes, which raises on a body
\* without drama; DramaBox falls back field by field, so a body that is not
\* the payload gives a drama with no episodes.
GetDrama(source, answer) ==
    IF answer.outcome \in {"timeout", "non2xx"} THEN Envelope(500, "Error", <<>>)
    ELSE IF source = "dramadash"
    THEN IF answer.outcome = "malformed" THEN Envelope(500, "TypeError", <<>>)
         ELSE Envelope(200, "", transformEpisode(answer.episodes))
    ELSE IF answer.outcome = "malformed" THEN Envelope(200, "", <<>>)
         ELSE Envelope(200, "", transformEpisodeList(answer.episodes))

\* episodes.find(ep => ep.episodeNumber === episodeNumber)
FindEpisode(episodes, episodeNumber) ==
    LET hits == {i \in DOMAIN episodes : episodes[i].episodeNumber = <<episodeNumber>>}
    IN  IF hits = {} THEN <<>>
        ELSE <<episodes[CHOOSE i \in hits : \A j \in hits : i <= j]>>

\* the body shared by both adapters' getEpisode and by getStreamInfo:
\* if (!dramaRes.data) 404 "Drama not found"; no such episode: 404
EpisodeOf(dramaRes, episodeNumber) ==
    IF dramaRes.isNull THEN Envelope(404, "Drama not found", <<>>)
    ELSE IF FindEpisode(dramaRes.episodes, episodeNumber) = <<>>
    THEN Envelope(404, "Episode not found", <<>>)
    ELSE Envelope(200, "", FindEpisode(dramaRes.episodes, episodeNumber))

StreamOps == {"getDrama", "getEpisode", "getStreamInfo"}
StreamCallers == {"c1", "c2"}

\* the response of the adapter call a StreamService method makes
AdapterAnswer(op, source, episodeNumber) ==
    IF op = "getDrama" THEN GetDrama(source, upstream[source])
    ELSE EpisodeOf(GetDrama(source, upstream[source]), episodeNumber)

\* a StreamService method is entered: try { const adapter = await getAdapter(source)
StreamCall(r, op, source, episodeNumber) ==
    /\ requests[r].pc \in {"idle", "returned"}
    /\ requests' = [requests EXCEPT ![r] =
           [IdleRequest EXCEPT !.pc = "getAdapter", !.op = op, !.source = source,
                               !.episodeNumber = episodeNumber]]
    /\ UNCHANGED <<storeVars, now, syncVars, cacheVars, viewVars, builderVars,
                   homeVars, walkVars, serviceVars, watchVars,
                   streamService, upstream, scoring>>

\* getAdapter up to its await: the cached adapter, or a new one from the
\* factory whose init() is called
GetAdapterOrCreate(service, source) ==
    IF source \in DOMAIN service.adapterCache
    THEN [service |-> service, adapter |-> service.adapterCache[source], fresh |-> FALSE]
    ELSE [service |-> [service EXCEPT !.made = Append(@, source)],
          adapter |-> Len(service.made) + 1, fresh |-> TRUE]

\* getAdapter(source): an unsupported source raises and handleError answers
GetAdapter(r) ==
    /\ requests[r].pc = "getAdapter"
    /\ IF requests[r].source \notin Sources
       THEN /\ requests' = [requests EXCEPT ![r].pc = "returned",
                                ![r].response = Envelope(500, "Unsupported source", <<>>)]
            /\ UNCHANGED streamService
       ELSE LET got == GetAdapterOrCreate(streamService, requests[r].source)
            IN  /\ streamService' = got.service
                /\ requests' = [requests EXCEPT ![r].adapter = got.adapter,
                                    ![r].pc = IF got.fresh THEN "init" ELSE "adapter"]
    /\ UNCHANGED <<storeVars, now, syncVars, cacheVars, viewVars, builderVars,
                   homeVars, walkVars, serviceVars, watchVars,
                   upstream, scoring>>

\* init() has settled: this.adapterCache.set(source, adapter)
GetAdapterSet(r) ==
    /\ requests[r].pc = "init"
    /\ streamService' = [streamService EXCEPT
           !.adapterCache = Put(@, requests[r].source, requests[r].adapter)]
    /\ requests' = [requests EXCEPT ![r].pc = "adapter"]
    /\ UNCHANGED <<storeVars, now, syncVars, cacheVars, viewVars, builderVars,
                   homeVars, walkVars, serviceVars, watchVars,
                   upstream, scoring>>

\* the adapter's method has answered and the StreamService method returns
StreamReturn(r) ==
    /\ requests[r].pc = "adapter"
    /\ requests' = [requests EXCEPT ![r].pc = "returned",
           ![r].response = AdapterAnswer(requests[r].op, requests[r].source,
                                         requests[r].episodeNumber)]
    /\ UNCHANGED <<storeVars, now, syncVars, cacheVars, viewVars, builderVars,
                   homeVars, walkVars, serviceVars, watchVars,
                   streamService, upstream, scoring>>

\* the store and the services that play no part in a specification
InitUnused ==
    /\ videos = <<>>
    /\ videoStats = <<>>
    /\ exploreIndex = <<>>
    /\ videosIdSeq = 0
    /\ statsIdSeq = 0
    /\ exploreIdSeq = 0
    /\ now = 0
    /\ sync = [p \in SyncCallers |-> IdleFrame]
    /\ callsLeft = 0
    /\ faultsLeft = 0
    /\ hist = InitHist
    /\ view = [v \in Viewers |-> NewView]
    /\ rv = [r \in RecordViewCallers |-> NewRv]
    /\ builder = IdleBuilder(0)
    /\ runs = <<>>
    /\ home = NoHome
    /\ unique = <<>>
    /\ walk = [w \in Walkers |-> IdleWalk]
    /\ pageCache = <<>>
    /\ syncAll = IdleSyncAll
    /\ agg = IdleAgg
    /\ reply = NoReply

\* one client, one request after the other; the sources give the same answer
InitStream ==
    /\ InitUnused
    /\ InitCache
    /\ InitWatchIdle
    /\ streamService = NoAdapters
    /\ requests = [r \in StreamCallers |-> IdleRequest]
    /\ scoring = IdleScoring
    /\ \E a \in UpstreamAnswers : upstream = [x \in Sources |-> a]

NextStream ==
    \/ \E op \in StreamOps, source \in Sources \cup {"other"},
          episodeNumber \in 1..MaxEpisodeNumber :
           /\ op = "getDrama" => episodeNumber = 1
           /\ StreamCall("c1", op, source, episodeNumber)
    \/ GetAdapter("c1")
    \/ GetAdapterSet("c1")
    \/ StreamReturn("c1")

SpecStream == InitStream /\ [][NextStream]_vars

\* concurrent requests to a reachable upstream, the registry empty at first
InitAdapters ==
    /\ InitUnused
    /\ InitCache
    /\ InitWatchIdle
    /\ streamService = NoAdapters
    /\ requests = [r \in StreamCallers |-> IdleRequest]
    /\ scoring = IdleScoring
    /\ upstream = [x \in Sources |-> [outcome |-> "ok", episodes |-> <<>>]]

NextAdapters ==
    \/ \E r \in StreamCallers, op \in StreamOps, source \in Sources :
           StreamCall(r, op, source, 1)
    \/ \E r \in StreamCallers : GetAdapter(r)
    \/ \E r \in StreamCallers : GetAdapterSet(r)
    \/ \E r \in StreamCallers : StreamReturn(r)

SpecAdapters == InitAdapters /\ [][NextAdapters]_vars

(***************************************************************************)
(* CacheService.calculateHotScore over the hourly buckets of a key.  Scores *)
(* are in thousandths: Math.exp(-hoursAgo / 24) is a weight out of 1000,    *)
(* rounded down.                                                           *)
(***************************************************************************)
MaxHour == 26        \* last hour of the clock of the hot-score specification
MaxBucketViews == 2  \* views counted in one hourly bucket

DecayPerMille ==
    <<1000, 959, 920, 882, 846, 811, 778, 747, 716, 687, 659, 632,
      606, 581, 558, 535, 513, 492, 472, 453, 434, 416, 399, 383>>

\* a faulty weight, for comparison: every hour of the window counts in full
NoDecay(hoursAgo) == DecayPerMille[1]

\* const decayFactor = Math.exp(-hoursAgo / 24)
DecayFactor(hoursAgo) == DecayPerMille[hoursAgo + 1]

\* calculateHotScore(videoKey) is entered: currentHour is read once
CalculateHotScoreStart(videoKey) ==
    /\ scoring.pc \in {"idle", "returned"}
    /\ scoring' = Guarded(redis,
                      [IdleScoring EXCEPT !.pc = "get", !.videoKey = videoKey,
                                          !.currentHour = hour,
                                          !.buckets = hourBuckets],
                      [IdleScoring EXCEPT !.pc = "returned", !.videoKey = videoKey,
                                          !.buckets = hourBuckets]).value
    /\ UNCHANGED <<storeVars, now, syncVars, cacheVars, viewVars, builderVars,
                   homeVars, walkVars, serviceVars, watchVars,
                   streamService, requests, upstream>>

\* one turn of the loop: GET views_24h:<videoKey>:<currentHour - hoursAgo>,
\* totalScore += parseInt(views) * decayFactor; after hoursAgo = 23 the
\* score is returned; a failing backend is caught and 0 returned
CalculateHotScoreGet ==
    /\ scoring.pc = "get"
    /\ LET hourKey == <<scoring.videoKey, scoring.currentHour - scoring.hoursAgo>>
           views == IF hourKey \in DOMAIN hourBuckets
                    THEN hourBuckets[hourKey].count ELSE 0
           last == scoring.hoursAgo + 1 = VIEW_24H_HOURS
       IN  scoring' = Guarded(redis,
                          [scoring EXCEPT
                              !.totalScore = @ + (views * DecayFactor(scoring.hoursAgo)),
                              !.hoursAgo = @ + 1,
                              !.pc = IF last THEN "returned" ELSE "get"],
                          [scoring EXCEPT !.totalScore = 0, !.pc = "returned"]).value
    /\ UNCHANGED <<storeVars, now, syncVars, cacheVars, viewVars, builderVars,
                   homeVars, walkVars, serviceVars, watchVars,
                   streamService, requests, upstream>>

\* a bucket outlives its TTL: Redis drops the key during the hour it is due
BucketExpires(b) ==
    /\ b \in DOMAIN hourBuckets
    /\ hourBuckets[b].expires >= 0
    /\ hourBuckets[b].expires <= hour
    /\ hourBuckets' = Drop(hourBuckets, b)
    /\ UNCHANGED <<storeVars, now, syncVars, trendingSet, hotSet, hour, redis,
                   allVideosCache, viewVars, builderVars, elsewhere>>

\* Date.now() enters the next hour; every key due in the hour left is gone
HourPasses ==
    /\ hour < MaxHour
    /\ \A b \in DOMAIN hourBuckets :
           hourBuckets[b].expires < 0 \/ hourBuckets[b].expires > hour
    /\ hour' = hour + 1
    /\ UNCHANGED <<storeVars, now, syncVars, trendingSet, hotSet, hourBuckets, redis,
                   allVideosCache, viewVars, builderVars, elsewhere>>

\* the buckets of one key: at most two hours with views, each bucket with
\* the TTL its last view gave it
BucketHours == 1..(MaxHour - 1)
ScoredKey == createVideoKey("dramadash", "1")
InitHot ==
    /\ InitUnused
    /\ InitStreamIdle
    /\ \E n \in 0..2, h1, h2 \in BucketHours, c1, c2 \in 1..MaxBucketViews :
           LET hours == IF n = 0 THEN {} ELSE IF n = 1 THEN {h1} ELSE {h1, h2}
           IN  hourBuckets = [b \in {ScoredKey} \X hours |->
                                 [count |-> IF b[2] = h1 THEN c1 ELSE c2,
                                  expires |-> b[2] + VIEW_24H_HOURS]]
    /\ hour = MaxHour - 1
    /\ trendingSet = <<>>
    /\ hotSet = <<>>
    /\ redis = "ok"
    /\ allVideosCache = NoCached

NextHot ==
    \/ CalculateHotScoreStart(ScoredKey)
    \/ CalculateHotScoreGet
    \/ \E b \in DOMAIN hourBuckets : BucketExpires(b)
    \/ HourPasses

SpecHot == InitHot /\ [][NextHot]_vars

(***************************************************************************)
(* POST /api/events/watch: a hot view for a long enough watch, then the    *)
(* watch history and the watch time, both started without being awaited.   *)
(***************************************************************************)
\* both updates started, then the response: status 200
WatchLaunch(f) ==
    [f EXCEPT !.pc = "responded", !.status = 200,
              !.history = IF f.userId # "" THEN "find" ELSE "done",
              !.time = "find"]

\* the response without any update started: 400 or the catch's 500
WatchRefuse(f, status) ==
    [f EXCEPT !.pc = "responded", !.status = status,
              !.history = "done", !.time = "done"]

WatchPost(v, source, externalId, progress, userId) ==
    /\ watch[v].pc = "new"
    /\ LET f == [NewWatch EXCEPT !.source = source, !.externalId = externalId,
                                 !.episodeNumber = 1, !.progress = progress,
                                 !.userId = userId]
       IN  watch' = [watch EXCEPT ![v] =
               IF source = "" \/ externalId = "" THEN WatchRefuse(f, 400)
               ELSE IF progress >= MIN_WATCH_TIME THEN [f EXCEPT !.pc = "incr"]
               ELSE WatchLaunch(f)]
    /\ UNCHANGED <<storeVars, now, syncVars, cacheVars, viewVars, builderVars,
                   homeVars, walkVars, serviceVars,
                   streamService, requests, upstream, scoring, watched>>

\* await cacheService.recordHotView(videoKey): INCR, then EXPIRE
WatchHotIncr(v) ==
    /\ watch[v].pc = "incr"
    /\ LET z == Guarded(redis,
                        HotViewIncr(hourBuckets,
                            createVideoKey(watch[v].source, watch[v].externalId), hour),
                        hourBuckets)
       IN  /\ hourBuckets' = z.value
           /\ watch' = [watch EXCEPT ![v] =
                  IF z.raised THEN WatchRefuse(@, 500)
                  ELSE IF redis = "ok"
                  THEN [@ EXCEPT !.pc = "expire", !.bucketHour = hour]
                  ELSE WatchLaunch(@)]
    /\ UNCHANGED <<storeVars, now, syncVars, trendingSet, hotSet, hour, redis,
                   allVideosCache, viewVars, builderVars,
                   homeVars, walkVars, serviceVars,
                   streamService, requests, upstream, scoring, watched>>

WatchHotExpire(v) ==
    /\ watch[v].pc = "expire"
    /\ LET z == Guarded(redis,
                        HotViewExpire(hourBuckets,
                            createVideoKey(watch[v].source, watch[v].externalId),
                            watch[v].bucketHour, hour),
                        hourBuckets)
       IN  /\ hourBuckets' = z.value
           /\ watch' = [watch EXCEPT ![v] =
                  IF z.raised THEN WatchRefuse(@, 500) ELSE WatchLaunch(@)]
    /\ UNCHANGED <<storeVars, now, syncVars, trendingSet, hotSet, hour, redis,
                   allVideosCache, viewVars, builderVars,
                   homeVars, walkVars, serviceVars,
                   streamService, requests, upstream, scoring, watched>>

\* updateWatchHistory: "Find the video"
WatchHistoryFind(v) ==
    /\ watch[v].history = "find"
    /\ LET video == SelectVideo(watch[v].source, watch[v].externalId)
       IN  watch' = [watch EXCEPT ![v] =
               IF Len(video) = 0 THEN [@ EXCEPT !.history = "done"]
               ELSE [@ EXCEPT !.history = "insert", !.historyVideoId = video[1]]]
    /\ UNCHANGED <<storeVars, now, syncVars, cacheVars, viewVars, builderVars,
                   homeVars, walkVars, serviceVars,
                   streamService, requests, upstream, scoring, watched>>

\* insert(userWatchHistory).values({userId, videoId, episodeNumber, progress,
\* watchedAt: new Date()})
WatchHistoryInsert(v) ==
    /\ watch[v].history = "insert"
    /\ watched' = [watched EXCEPT !.history =
           Append(@, [userId |-> watch[v].userId,
                      videoId |-> watch[v].historyVideoId,
                      episodeNumber |-> watch[v].episodeNumber,
                      progress |-> watch[v].progress,
                      watchedAt |-> JsDate(now)])]
    /\ watch' = [watch EXCEPT ![v].history = "done"]
    /\ UNCHANGED <<storeVars, now, syncVars, cacheVars, viewVars, builderVars,
                   homeVars, walkVars, serviceVars,
                   streamService, requests, upstream, scoring>>

\* updateWatchTime: "Find the video"
WatchTimeFind(v) ==
    /\ watch[v].time = "find"
    /\ LET video == SelectVideo(watch[v].source, watch[v].externalId)
       IN  watch' = [watch EXCEPT ![v] =
               IF Len(video) = 0 THEN [@ EXCEPT !.time = "done"]
               ELSE [@ EXCEPT !.time = "read", !.timeVideoId = video[1]]]
    /\ UNCHANGED <<storeVars, now, syncVars, cacheVars, viewVars, builderVars,
                   homeVars, walkVars, serviceVars,
                   streamService, requests, upstream, scoring, watched>>

\* updateWatchTime: "Check if stats exist"; without a row nothing is written
WatchTimeRead(v) ==
    /\ watch[v].time = "read"
    /\ watch' = [watch EXCEPT ![v].time =
           IF Len(SelectStats(watch[v].timeVideoId)) = 0 THEN "done" ELSE "update"]
    /\ UNCHANGED <<storeVars, now, syncVars, cacheVars, viewVars, builderVars,
                   homeVars, walkVars, serviceVars,
                   streamService, requests, upstream, scoring, watched>>

\* a faulty update, for comparison: the statement also refreshes the score
\* of the video's row of explore_index
WatchTimeUpdateIndexed(v) ==
    /\ watch[v].time = "update"
    /\ watched' = [watched EXCEPT !.lastViewedAt =
           Put(@, watch[v].timeVideoId, JsDate(now))]
    /\ exploreIndex' = [i \in DOMAIN exploreIndex |->
           IF /\ exploreIndex[i].source = watch[v].source
              /\ exploreIndex[i].externalId = watch[v].externalId
           THEN [exploreIndex[i] EXCEPT !.popularityScore = @ + 1]
           ELSE exploreIndex[i]]
    /\ watch' = [watch EXCEPT ![v].time = "done"]
    /\ UNCHANGED <<videos, videoStats, videosIdSeq, statsIdSeq, exploreIdSeq,
                   now, syncVars, cacheVars, viewVars, builderVars,
                   homeVars, walkVars, serviceVars,
                   streamService, requests, upstream, scoring>>

\* update(videoStats).set({lastViewedAt: new Date(), updatedAt: new Date()})
\*   .where(eq(videoStats.videoId, videoId))
WatchTimeUpdate(v) ==
    /\ watch[v].time = "update"
    /\ watched' = [watched EXCEPT !.lastViewedAt =
           Put(@, watch[v].timeVideoId, JsDate(now))]
    /\ watch' = [watch EXCEPT ![v].time = "done"]
    /\ UNCHANGED <<storeVars, now, syncVars, cacheVars, viewVars, builderVars,
                   homeVars, walkVars, serviceVars,
                   streamService, requests, upstream, scoring>>

(***************************************************************************)
(* Every writer of the store next to the index builder: syncAllSources     *)
(* (syncSource, upsertVideos), recordView, and the view and watch event    *)
(* handlers. Each is called once, one after the other; the builder runs    *)
(* at any moment between their steps.                                      *)
(***************************************************************************)
WatchUsers == {"", "u1"}
WatchProgress == {0, MIN_WATCH_TIME}

\* no handler is between its first and its last step
Quiet ==
    /\ ~Busy("s1")
    /\ syncAll.pc \in {"idle", "returned"}
    /\ \A v \in Viewers : view[v].pc \in {"new", "done", "failed"}
    /\ \A r \in RecordViewCallers : rv[r].pc = "new"
    /\ \A v \in Viewers :
           \/ watch[v].pc = "new"
           \/ watch[v].pc = "responded" /\ watch[v].history = "done"
                                        /\ watch[v].time = "done"

\* a home response with the section latest alone, of the viewed source
SmallHome(res) ==
    \/ res.isNull
    \/ /\ res.data.banners = Undefined
       /\ res.data.trending = Undefined
       /\ res.data.latest # Undefined
       /\ \A n \in DOMAIN res.data.latest.items :
              res.data.latest.items[n].source = ViewedDrama.source

\* the store empty, or holding the viewed drama from an earlier sync
InitOwners == InitRecord

NextOwners ==
    \/ (Quiet /\ syncAll.runs = 0 /\ SyncAllStart)
    \/ \E source \in Sources : \E res \in SourceHomes(source) :
           SmallHome(res) /\ SyncAllGetHome(res)
    \/ (syncAll.pc = "source" /\ SyncSourceCombine)
    \/ SyncAllCatch
    \/ SyncSourceUpsert
    \/ UpsertSelect("s1")
    \/ UpsertUpdate("s1")
    \/ UpsertInsert("s1")
    \/ UpsertStats("s1")
    \/ SyncSourceReturn
    \/ SyncAllReturn
    \/ (Quiet /\ ViewPost("v1", ViewedDrama.source, ViewedDrama.id))
    \/ ViewZincrby("v1")
    \/ ViewHotIncr("v1")
    \/ ViewHotExpire("v1")
    \/ ViewFind("v1")
    \/ ViewRead("v1")
    \/ ViewWrite("v1")
    \/ \E r \in RecordViewCallers :
           /\ Quiet
           /\ rv[r].calls = 0
           /\ RecordViewStart(r, ViewedDrama.source, ViewedDrama.id)
    \/ \E r \in RecordViewCallers : RecordViewZincrby(r)
    \/ \E r \in RecordViewCallers : RecordViewHotIncr(r)
    \/ \E r \in RecordViewCallers : RecordViewHotExpire(r)
    \/ \E r \in RecordViewCallers : RecordViewSelect(r)
    \/ \E r \in RecordViewCallers : RecordViewUpdate(r)
    \/ \E source \in {"", ViewedDrama.source}, progress \in WatchProgress,
          userId \in WatchUsers :
           Quiet /\ WatchPost("v1", source, ViewedDrama.id, progress, userId)
    \/ WatchHotIncr("v1")
    \/ WatchHotExpire("v1")
    \/ WatchHistoryFind("v1")
    \/ WatchHistoryInsert("v1")
    \/ WatchTimeFind("v1")
    \/ WatchTimeRead("v1")
    \/ WatchTimeUpdate("v1")
    \/ BuilderRead
    \/ \E e \in builder.entries : BuilderUpsert(e)

SpecOwners == InitOwners /\ [][NextOwners]_vars

(***************************************************************************)
(* Properties of the sync path.                                            *)
(***************************************************************************)
InFlight(k) == \E p \in SyncCallers : Busy(p) /\ CurrentKey(p) = k
OneVideoWithStats(k) ==
    /\ Cardinality(VideoRows(k)) = 1
    /\ \A v \in VideoRows(k) : Cardinality(StatsRows(v)) = 1

\* C1: a drama upserted N >= 1 times in sequence (no two of its upserts
\* overlapping, every store statement succeeding) has exactly one Video row
\* and exactly one VideoStats row, and the row carries the metadata of the
\* last upsert.
C1_UpsertIdempotent ==
    \A k \in Keys :
        (/\ hist.done[k] >= 1
         /\ k \notin hist.raced
         /\ k \notin hist.faulted
         /\ ~InFlight(k))
        => /\ OneVideoWithStats(k)
           /\ \A v \in VideoRows(k) : videos[v].title = hist.last[k]

C1_Witness ==
    \E k \in Keys :
        /\ hist.done[k] >= 3
        /\ hist.submitted[k] = Titles
        /\ k \notin hist.raced
        /\ k \notin hist.faulted
        /\ ~InFlight(k)
        /\ OneVideoWithStats(k)

\* C2: when two upsertVideos calls race on a pair that is not yet stored,
\* the store ends with one Video row and one VideoStats row for the pair and
\* the call rejected by the unique index falls back to an update: no upsert
\* of the race is dropped.
C2_RaceFallsBackToUpdate ==
    \A k \in Keys :
        (/\ k \in hist.raced
         /\ k \notin hist.faulted
         /\ ~InFlight(k))
        => /\ OneVideoWithStats(k)
           /\ k \notin hist.dropped

\* C8: a Video whose VideoStats insert failed has a VideoStats row once a
\* later upsert of the same pair has completed.
C8_StatsRepairedByNextSync ==
    \A k \in hist.resynced : \A v \in VideoRows(k) : StatsRows(v) # {}

\* C10: no two Video rows share (source, externalId); every pair that was
\* upserted has its own row, and a row only ever carries metadata that was
\* submitted for its own pair.
C10_KeyedBySourceAndId ==
    /\ \A i, j \in DOMAIN videos : i # j => RowKey(i) # RowKey(j)
    /\ \A k \in Keys :
           (hist.done[k] >= 1 /\ k \notin hist.faulted) => VideoRows(k) # {}
    /\ \A i \in DOMAIN videos : videos[i].title \in hist.submitted[RowKey(i)]

C10_Witness ==
    \E i, j \in DOMAIN videos :
        /\ videos[i].externalId = videos[j].externalId
        /\ videos[i].source = "dramadash" /\ videos[j].source = "dramabox"
        /\ videos[i].title = "X" /\ videos[j].title = "Y"
        /\ hist.submitted[RowKey(i)] = {"X"}
        /\ hist.submitted[RowKey(j)] = {"Y"}
        /\ ~InFlight(RowKey(i)) /\ ~InFlight(RowKey(j))

(***************************************************************************)
(* Properties of the view path.                                            *)
(***************************************************************************)
\* C3: viewsTotal is monotonic: no step of a view-event handler, a
\* recordView call or a sync lowers the viewsTotal of a VideoStats row.
C3_ViewsTotalMonotonic ==
    [][\A i \in DOMAIN videoStats :
           /\ i \in DOMAIN videoStats'
           /\ videoStats'[i].viewsTotal >= videoStats[i].viewsTotal]_vars

\* C6: for a drama that receives only view increments between two builder
\* runs, the later run writes a popularityScore that is at least the earlier
\* run's.
C6_PopularityMonotoneAcrossRuns ==
    \A i, j \in 1..Len(runs) :
        i < j => \A k \in DOMAIN runs[i] \cap DOMAIN runs[j] :
                     runs[j][k] >= runs[i][k]

OnlyRecordViews ==
    /\ \A v \in Viewers : view[v].pc = "new"
    /\ \A p \in SyncCallers : ~Busy(p)
    /\ callsLeft = ViewSyncs
    /\ builder = IdleBuilder(0)

\* C7: after n >= 1 recordView calls for one key within one hour, and nothing
\* else, getHot(1) returns that key, and the key's hot score is n.
C7_HotAfterRecordViews ==
    \A r \in RecordViewCallers :
        (OnlyRecordViews /\ rv[r].pc = "new" /\ rv[r].calls >= 1)
        => LET k == createVideoKey(ViewedDrama.source, ViewedDrama.id)
           IN  \A res \in GetHot(1) :
                   /\ Len(res) = 1
                   /\ res[1].key = k
                   /\ k \in DOMAIN hotSet
                   /\ hotSet[k] = rv[r].calls

(***************************************************************************)
(* Properties of syncSource.                                               *)
(***************************************************************************)
PairOf(v) == <<v.source, v.id>>

\* the positions of a list at which a (source, id) pair occurs for the first time
FirstOccurrences(list) ==
    {i \in DOMAIN list : \A j \in 1..(i - 1) : PairOf(list[j]) # PairOf(list[i])}

\* C9: the list handed to upsertVideos is banners + trending + latest without
\* the later repeats of a (source, id): no pair occurs twice, every pair of the
\* input occurs, and the entries are the first occurrences, in their order.
C9_DedupeFirstOccurrence ==
    home.pc = "handed" =>
        LET all == AllVideos(home.res.data)
            first == FirstOccurrences(all)
        IN  /\ \A i, j \in DOMAIN unique :
                   i # j => PairOf(unique[i]) # PairOf(unique[j])
            /\ {PairOf(unique[i]) : i \in DOMAIN unique}
                   = {PairOf(all[i]) : i \in DOMAIN all}
            /\ Len(unique) = Cardinality(first)
            /\ \A n \in DOMAIN unique :
                   unique[n] = all[CHOOSE i \in first :
                                       Cardinality({j \in first : j <= i}) = n]

C9_Witness ==
    /\ home.pc = "handed"
    /\ Len(unique) = 2
    /\ Len(AllVideos(home.res.data)) >= 4
    /\ \E i, j \in DOMAIN AllVideos(home.res.data) :
           /\ i < j
           /\ PairOf(AllVideos(home.res.data)[i]) = PairOf(AllVideos(home.res.data)[j])
           /\ AllVideos(home.res.data)[i].title # AllVideos(home.res.data)[j].title
    /\ unique[1].id = unique[2].id

(***************************************************************************)
(* Properties of the paginated views.                                      *)
(***************************************************************************)
\* how often a walk was handed row id
Times(w, id) == Cardinality({n \in DOMAIN walk[w].got : walk[w].got[n] = id})

\* C4: on a fixed explore_index of K rows, a walk of the explore endpoint
\* with any limit in [1, K], followed to hasMore = false, yields exactly the K
\* rows, each once, in (score desc, id desc) order, for each sort.
C4_ExploreWalkComplete ==
    \A w \in Walkers :
        (walk[w].pc = "done" /\ walk[w].via \in {"route", "getExplore"})
        => LET key == [i \in DOMAIN exploreIndex |->
                          <<SortScore(exploreIndex[i], walk[w].sort), i>>]
           IN  /\ \A i \in DOMAIN exploreIndex : Times(w, i) = 1
               /\ Len(walk[w].got) = Cardinality(DOMAIN exploreIndex)
               /\ \A m, n \in DOMAIN walk[w].got :
                      m < n => PairBelow(key[walk[w].got[n]], key[walk[w].got[m]])

C4_Witness ==
    \E w, x \in Walkers :
        /\ w # x
        /\ walk[w].pc = "done" /\ walk[x].pc = "done"
        /\ walk[w].via = "route" /\ walk[x].via = "route"
        /\ walk[w].sort = walk[x].sort
        /\ walk[w].limit = 1 /\ walk[x].limit = 2
        /\ Len(walk[x].got) = MaxRows
        /\ BuildCacheKey(walk[w].sort, "") \in DOMAIN pageCache
        /\ \E i, j \in DOMAIN exploreIndex :
               /\ i # j
               /\ SortScore(exploreIndex[i], walk[w].sort)
                      = SortScore(exploreIndex[j], walk[w].sort)
        /\ \E i, j \in DOMAIN exploreIndex :
               SortScore(exploreIndex[i], walk[w].sort)
                   < SortScore(exploreIndex[j], walk[w].sort)

\* C5: with rows inserted between page fetches and no existing row's
\* (sort key, id) changed, a walk followed to hasMore = false returns every
\* row that existed when it started exactly once.
C5_WalkStableUnderInserts ==
    \A w \in Walkers :
        walk[w].pc = "done" => \A i \in walk[w].startIds : Times(w, i) = 1

(***************************************************************************)
(* Properties of syncAllSources.                                           *)
(***************************************************************************)
\* the sources, in the order attempted, whose syncSource raised
RECURSIVE RaisedSources(_)
RaisedSources(homes) ==
    IF Len(homes) = 0 THEN <<>>
    ELSE (IF homes[1].isNull THEN <<homes[1].source>> ELSE <<>>)
         \o RaisedSources(Tail(homes))

\* C11: syncAllSources attempts every supported source exactly once whatever
\* happens to the others: each source whose sync raises adds exactly one
\* entry to errors, the other sources are synced, and the call returns
\* normally.
C11_SyncAllIsolatesSources ==
    /\ syncAll.pc # "raised"
    /\ syncAll.pc = "returned" =>
           /\ syncAll.attempted = SUPPORTED_SOURCES
           /\ syncAll.errors = RaisedSources(syncAll.homes)
           /\ \A n \in DOMAIN syncAll.homes :
                  ~syncAll.homes[n].isNull =>
                      \A pr \in syncAll.homes[n].pairs :
                          VideoRows(createVideoKey(pr[1], pr[2])) # {}

C11_Witness ==
    /\ syncAll.pc = "returned"
    /\ syncAll.errors = <<SUPPORTED_SOURCES[1]>>
    /\ \E i \in DOMAIN videos : videos[i].source = SUPPORTED_SOURCES[2]
    /\ syncAll.totalSynced = 1

(***************************************************************************)
(* Properties of a batch with a failing item.                              *)
(***************************************************************************)
\* C12: a failure while upserting one item does not abort the batch: when
\* upsertVideos has returned, every item of the list on which no statement
\* failed has its Video row with the item's title, and the call never ends
\* by raising.
C12_BatchNotAborted ==
    /\ \A p \in SyncCallers : sync[p].pc # "raised"
    /\ (callsLeft = 0 /\ ~Busy("s1")) =>
           \A d \in hist.batch :
               DramaKey(d) \notin hist.faulted =>
                   /\ VideoRows(DramaKey(d)) # {}
                   /\ \A i \in VideoRows(DramaKey(d)) : videos[i].title = d.title

C12_Witness ==
    /\ callsLeft = 0
    /\ ~Busy("s1")
    /\ \E d, e \in hist.batch :
           /\ DramaKey(d) \in hist.faulted
           /\ VideoRows(DramaKey(d)) = {}
           /\ DramaKey(e) \notin hist.faulted
           /\ \E i \in VideoRows(DramaKey(e)) :
                  videos[i].title = e.title

(***************************************************************************)
(* Properties of getAggregatedHome.                                        *)
(***************************************************************************)
EntriesOf(source) ==
    {n \in DOMAIN agg.response.sources : agg.response.sources[n].source = source}

\* C13: whichever sources fail (adapter initialisation or getHome raising,
\* or a response without data), getAggregatedHome returns status 200 with
\* exactly one entry, carrying the home data, for each of the other sources
\* and none for the failed ones, in the order of SUPPORTED_SOURCES.
C13_AggregatedHomeIsolatesSources ==
    agg.pc = "returned" =>
        /\ agg.response.status = 200
        /\ \A n \in DOMAIN SUPPORTED_SOURCES :
               LET r == agg.results[n]
                   entries == EntriesOf(SUPPORTED_SOURCES[n])
               IN  IF r.status = "fulfilled" /\ ~r.isNull
                   THEN /\ Cardinality(entries) = 1
                        /\ \A e \in entries : agg.response.sources[e].data = r.data
                   ELSE entries = {}
        /\ \A a, b \in DOMAIN agg.response.sources :
               a < b =>
                   \E m, n \in DOMAIN SUPPORTED_SOURCES :
                       /\ m < n
                       /\ SUPPORTED_SOURCES[m] = agg.response.sources[a].source
                       /\ SUPPORTED_SOURCES[n] = agg.response.sources[b].source

C13_Witness ==
    /\ agg.pc = "returned"
    /\ agg.results[1].status = "rejected"
    /\ agg.results[2].status = "fulfilled"
    /\ ~agg.results[2].isNull
    /\ Len(agg.response.sources) = 1
    /\ agg.response.sources[1].source = SUPPORTED_SOURCES[2]

(***************************************************************************)
(* Properties of the cache-ranked listings.                                *)
(***************************************************************************)
\* the ranked keys that have a Video row, in ranking order
RECURSIVE WithRow(_)
WithRow(keys) ==
    IF Len(keys) = 0 THEN <<>>
    ELSE (IF VideoRows(keys[1]) # {} THEN <<keys[1]>> ELSE <<>>)
         \o WithRow(Tail(keys))

ResultKeys(result) == [n \in DOMAIN result.videos |-> result.videos[n].key]

\* C14: when the trending (hot) sorted set has members, getTrending (getHot)
\* returns the videos of the ranked keys in the ranking order, a ranked key
\* without a Video row being left out, and raises nothing.
C14_RehydrateInCacheOrder ==
    /\ DOMAIN trendingSet # {} =>
           \A limit \in 1..2 : \A sc \in GetTrendingScores(limit) :
               \A result \in GetTrendingFor(sc, limit)
                             \cup TrendingGetTrendingFor(sc, limit) :
                   /\ ~result.raised
                   /\ ResultKeys(result) = WithRow(ScoreKeys(sc))
    /\ DOMAIN hotSet # {} =>
           \A limit \in 1..2 : \A sc \in GetHotScores(limit) :
               LET listed == GetVideosByKeys(ScoreKeys(sc))
               IN  [n \in DOMAIN listed |-> listed[n].key] = WithRow(ScoreKeys(sc))

(***************************************************************************)
(* Properties of the trending counter.                                     *)
(***************************************************************************)
\* the view recordings of the viewed drama whose ZINCRBY has completed
ViewsRecorded ==
    Cardinality({v \in Viewers : view[v].pc # "new" /\ "zincrby" \notin view[v].pending})

RecordViewsRecorded(r) ==
    rv[r].calls + (IF rv[r].pc \in {"new", "zincrby"} THEN 0 ELSE 1)

TrendingScore(k) == IF k \in DOMAIN trendingSet THEN trendingSet[k] ELSE 0

\* C15: in every interleaving the trending score of a key is the number of
\* view recordings of that key whose increment has completed: no increment
\* is lost, and as that number only grows the score never decreases.
C15_TrendingCountsEveryView ==
    /\ TrendingScore(DramaKey(ViewedDrama)) =
           ViewsRecorded + RecordViewsRecorded("r1")
    /\ \A k \in DOMAIN trendingSet : k = DramaKey(ViewedDrama)

C15_Witness ==
    /\ \A v \in Viewers : view[v].pc = "done"
    /\ rv["r1"].pc = "new"
    /\ rv["r1"].calls = MaxRecordViews
    /\ TrendingScore(DramaKey(ViewedDrama)) = Cardinality(Viewers) + MaxRecordViews

(***************************************************************************)
(* Properties of recordView for a drama that was never synced.             *)
(***************************************************************************)
BucketCount(k, h) ==
    IF <<k, h>> \in DOMAIN hourBuckets THEN hourBuckets[<<k, h>>].count ELSE 0

\* C16: a step of recordView for a (source, externalId) without a Video row
\* creates and modifies no durable row and never takes the update branch;
\* its ZINCRBY raises the key's trending score by one and its INCR raises
\* the key's current hourly bucket by one.
C16_RecordViewWithoutVideo ==
    [][\A r \in RecordViewCallers :
          (rv'[r] # rv[r] /\ VideoRows(RvKey(r)) = {} /\ rv[r].pc # "new") =>
              /\ UNCHANGED storeVars
              /\ rv'[r].pc # "update"
              /\ rv[r].pc = "zincrby" =>
                     TrendingScore(RvKey(r))' = TrendingScore(RvKey(r)) + 1
              /\ rv[r].pc = "incr" =>
                     BucketCount(RvKey(r), hour)' = BucketCount(RvKey(r), hour) + 1
              /\ rv[r].pc = "select" => rv'[r] = ReturnedRv(r)]_vars

C16_Witness ==
    /\ videos = <<>>
    /\ videoStats = <<>>
    /\ \A v \in Viewers : view[v].pc = "new"
    /\ rv["r1"].pc = "new"
    /\ rv["r1"].calls = MaxRecordViews
    /\ TrendingScore(DramaKey(ViewedDrama)) = MaxRecordViews
    /\ BucketCount(DramaKey(ViewedDrama), hour) = MaxRecordViews

(***************************************************************************)
(* Properties of the cache as an advisory layer.                           *)
(***************************************************************************)

\* the rows a listing without the cache can return
ListedFrom ==
    IF reply.op = "getAllVideos" /\ reply.source # ""
    THEN {i \in DOMAIN videos : videos[i].source = reply.source}
    ELSE DOMAIN videos

\* C17: with the cache backend not configured or failing on every call, no
\* CacheService operation raises and each returns its miss value (null,
\* false, 0, an empty list); getAllVideos, getTrending and getHot return
\* rows of the durable store and recordView goes on to the durable update,
\* none of them raising, and the cache holds nothing.
C17_CacheIsAdvisory ==
    redis # "ok" =>
        /\ GetCachedAllVideos = [raised |-> FALSE, value |-> NoCached]
        /\ SetCachedAllVideos(NoCached) = [raised |-> FALSE, value |-> FALSE]
        /\ InvalidateHomeCache = [raised |-> FALSE, value |-> FALSE]
        /\ \A k \in Keys :
               /\ IncrementViewCountScore(k) = [raised |-> FALSE, value |-> 0]
               /\ RecordHotView(k) = [raised |-> FALSE, value |-> hourBuckets]
        /\ \A limit \in ListLimits :
               /\ TrendingScoresCall(limit) = [raised |-> FALSE, value |-> {<<>>}]
               /\ HotScoresCall(limit) = [raised |-> FALSE, value |-> {<<>>}]
        /\ trendingSet = <<>> /\ hotSet = <<>> /\ hourBuckets = <<>>
        /\ allVideosCache = NoCached
        /\ \A r \in RecordViewCallers : rv[r].pc # "raised"
        /\ reply.op # "none" =>
               /\ ~reply.raised
               /\ \A n \in DOMAIN reply.videos :
                      /\ \E i \in ListedFrom : RowKey(i) = reply.videos[n].key
                      /\ \A m \in DOMAIN reply.videos :
                             m # n => reply.videos[m].key # reply.videos[n].key
               /\ Len(reply.videos) <= reply.limit
               /\ (~Busy("s1") /\ callsLeft = 0) =>
                      Len(reply.videos) <=
                          Min(reply.limit, Cardinality(ListedFrom))

C17_Witness ==
    /\ redis = "failing"
    /\ reply.op = "getTrending"
    /\ Len(reply.videos) = 2
    /\ rv["r1"].pc = "new"
    /\ rv["r1"].calls = MaxRecordViews
    /\ \E i \in DOMAIN videos :
           /\ RowKey(i) = DramaKey(ViewedDrama)
           /\ JoinedViewsTotal(i) = MaxRecordViews

ViewsTotalOf(i) ==
    IF \E j \in DOMAIN videoStats : videoStats[j].videoId = i
    THEN videoStats[CHOOSE j \in DOMAIN videoStats : videoStats[j].videoId = i].viewsTotal
    ELSE 0

Views24hOf(i) ==
    IF \E j \in DOMAIN videoStats : videoStats[j].videoId = i
    THEN videoStats[CHOOSE j \in DOMAIN videoStats : videoStats[j].videoId = i].views24h
    ELSE 0

OrderValue(w, i) ==
    IF walk[w].via \in {"route", "getExplore"}
    THEN SortScore(exploreIndex[i], walk[w].sort)
    ELSE IF walk[w].via = "getVideosByCursor"
    THEN GetTime(videos[i].createdAt)
    ELSE IF walk[w].sort = "latest" THEN GetTime(videos[i].createdAt)
    ELSE SortByValue(i, walk[w].sort)

\* C20: in every cursor-paginated view and for every sort option, the cursor
\* a page hands out holds the last row's value of the column the page is
\* ordered by (and its id), and the next page holds only rows below that
\* row in the same order: the pages of a walk are in strictly descending
\* order of (order column, id).
C20_CursorMatchesOrder ==
    \A w \in Walkers :
        /\ (walk[w].pc = "paging" /\ Len(walk[w].got) > 0) =>
               LET last == walk[w].got[Len(walk[w].got)]
                   c == ParseCursor(walk[w].cursor)
               IN  /\ c.first = <<OrderValue(w, last)>>
                   /\ c.second = <<last>>
        /\ \A m, n \in DOMAIN walk[w].got :
               m < n => PairBelow(<<OrderValue(w, walk[w].got[n]), walk[w].got[n]>>,
                                  <<OrderValue(w, walk[w].got[m]), walk[w].got[m]>>)

(***************************************************************************)
(* Properties of the StreamService lookups.                                *)
(***************************************************************************)
Returned(ops) ==
    {r \in DOMAIN requests : requests[r].pc = "returned" /\ requests[r].op \in ops
                             /\ requests[r].source \in Sources}

\* C21: getStreamInfo and getEpisode answer 404 only when the drama fetch
\* succeeded and the drama or the episode is absent, and answer a status-500
\* envelope with an error string when the upstream fetch failed (timeout,
\* non-2xx or malformed payload)
C21_NotFoundOnlyAfterFetch ==
    \A r \in Returned({"getEpisode", "getStreamInfo"}) :
        LET fetch == upstream[requests[r].source].outcome
        IN  /\ requests[r].response.status = 404 => fetch = "ok"
            /\ fetch \in UpstreamFailures =>
                   /\ requests[r].response.status = 500
                   /\ requests[r].response.error # ""

\* the number the priority order gives: explicit numeric field, label digits,
\* chapter index + 1, position + 1
ByPriority(ep, index) ==
    IF Truthy(ep.episodeNumber) THEN ep.episodeNumber[1]
    ELSE IF Truthy(ep.serialNumber) THEN ep.serialNumber[1]
    ELSE IF FirstDigits(ep.chapterName) # <<>> THEN FirstDigits(ep.chapterName)[1]
    ELSE IF ep.chapterIndex # <<>> THEN ep.chapterIndex[1] + 1
    ELSE index + 1

\* C22: the episode number of a normalized DramaBox episode is the first
\* non-null of: explicit numeric field, integer parsed from the label, chapter
\* index + 1, array position + 1; with both an explicit number and a label
\* containing digits the explicit number is taken
C22_EpisodeNumberPriority ==
    \A r \in Returned({"getDrama"}) :
        (requests[r].source = "dramabox" /\ upstream["dramabox"].outcome = "ok") =>
            \A i \in DOMAIN upstream["dramabox"].episodes :
                requests[r].response.episodes[i].episodeNumber =
                    <<ByPriority(upstream["dramabox"].episodes[i], i - 1)>>

\* C23: over any interleaving of concurrent requests at most one adapter is
\* created for a source (so its init() runs at most once)
C23_OneAdapterPerSource ==
    \A a, b \in DOMAIN streamService.made :
        streamService.made[a] = streamService.made[b] => a = b

(***************************************************************************)
(* Properties of the hot score.                                            *)
(***************************************************************************)
\* the count of the bucket hoursAgo hours before hour h, 0 without a bucket
CountAt(buckets, videoKey, h, hoursAgo) ==
    IF <<videoKey, h - hoursAgo>> \in DOMAIN buckets
    THEN buckets[<<videoKey, h - hoursAgo>>].count ELSE 0

RECURSIVE WeightedSum(_, _, _, _)
WeightedSum(buckets, videoKey, h, hoursAgo) ==
    IF hoursAgo < 0 THEN 0
    ELSE (CountAt(buckets, videoKey, h, hoursAgo) * DecayFactor(hoursAgo))
         + WeightedSum(buckets, videoKey, h, hoursAgo - 1)

\* C24: the hot score of a key is the sum over hoursAgo = 0..23 of the bucket
\* count times a weight that is 1 for the current hour and strictly decreases
\* with hoursAgo: views in an older bucket score strictly less than the same
\* views in the current hour, and a bucket 24 or more hours old adds nothing
C24_HotScoreDecays ==
    /\ DecayFactor(0) = DecayPerMille[1]
    /\ \A a, b \in 0..(VIEW_24H_HOURS - 1) : a < b => DecayFactor(a) > DecayFactor(b)
    /\ (scoring.pc = "returned" /\ hourBuckets = scoring.buckets) =>
           /\ scoring.totalScore =
                  WeightedSum(hourBuckets, scoring.videoKey, scoring.currentHour,
                              VIEW_24H_HOURS - 1)
           /\ \A b \in DOMAIN hourBuckets :
                  LET age == scoring.currentHour - b[2]
                  IN  /\ (DOMAIN hourBuckets = {b} /\ age >= VIEW_24H_HOURS) =>
                             scoring.totalScore = 0
                      /\ (DOMAIN hourBuckets = {b} /\ age \in 1..(VIEW_24H_HOURS - 1)) =>
                             /\ scoring.totalScore > 0
                             /\ scoring.totalScore
                                    < hourBuckets[b].count * DecayPerMille[1]
                      /\ (DOMAIN hourBuckets = {b} /\ age = 0) =>
                             scoring.totalScore = hourBuckets[b].count * DecayPerMille[1]

\* a score returned over two buckets, one inside the window and not of the
\* current hour, one 24 hours old and still there
C24_Witness ==
    /\ scoring.pc = "returned"
    /\ hourBuckets = scoring.buckets
    /\ scoring.totalScore > 0
    /\ \E b, c \in DOMAIN hourBuckets :
           /\ scoring.currentHour - b[2] \in 1..(VIEW_24H_HOURS - 1)
           /\ scoring.currentHour - c[2] >= VIEW_24H_HOURS

(***************************************************************************)
(* Properties of the count syncAllSources reports.                         *)
(***************************************************************************)
\* C25: the number returned by syncSource and summed into synced is the count
\* of videos synced, the (source, id) pairs that upsertVideos inserted or
\* updated during the call; for the first call, on an empty store, these are
\* the Video rows there are when it returns
C25_SyncedCountsStoredVideos ==
    (syncAll.pc = "returned" /\ syncAll.runs = 1) =>
        syncAll.totalSynced = Cardinality(DOMAIN videos)


\* C26: only the index builder writes explore_index: a step that changes a row
\* of explore_index is an upsert of a builder run, and it is no step of
\* syncAllSources, syncSource, upsertVideos, recordView, the view handler or
\* the watch handler; so between two builder runs no row changes.
C26_OnlyBuilderWritesIndex ==
    [][exploreIndex' # exploreIndex =>
          /\ builder.pc = "upsert"
          /\ builder' # builder
          /\ UNCHANGED <<videos, videoStats, sync, syncAll, home, unique,
                         view, rv, watch, watched, cacheVars>>]_vars

\* every writer has written and the index, built before, is stale
C26_Witness ==
    /\ builder.pc = "idle"
    /\ exploreIndex # <<>>
    /\ {exploreIndex[i] : i \in DOMAIN exploreIndex} # IndexEntries
    /\ syncAll.runs > 0
    /\ watched.lastViewedAt # <<>>
    /\ watched.history # <<>>
    /\ \E r \in RecordViewCallers : rv[r].calls > 0
    /\ view["v1"].pc = "done"


\* the source of a row of the table a walk pages through
WalkedSource(w, i) ==
    IF walk[w].via = "getVideosByCursor" THEN videos[i].source
    ELSE exploreIndex[i].source

\* C27: when a source filter is given, every row of every page has that
\* source, on the first page and on the pages asked for with a cursor, and
\* the finished walk returned exactly the rows of that source, each once.
C27_SourceFilterOnEveryPage ==
    \A w \in Walkers :
        walk[w].source # "" =>
            /\ \A n \in DOMAIN walk[w].got :
                   WalkedSource(w, walk[w].got[n]) = walk[w].source
            /\ walk[w].pc = "done" =>
                   /\ {walk[w].got[n] : n \in DOMAIN walk[w].got}
                          = {i \in walk[w].startIds :
                                WalkedSource(w, i) = walk[w].source}
                   /\ \A m, n \in DOMAIN walk[w].got :
                          walk[w].got[m] = walk[w].got[n] => m = n

\* the same for the walks through getVideosByCursor alone
FilteredByCursorOnly ==
    \A w \in Walkers :
        walk[w].via = "getVideosByCursor" /\ walk[w].pc = "done" /\ walk[w].source # ""
        => /\ \A n \in DOMAIN walk[w].got :
                  videos[walk[w].got[n]].source = walk[w].source
           /\ {walk[w].got[n] : n \in DOMAIN walk[w].got}
                  = {i \in walk[w].startIds : videos[i].source = walk[w].source}


\* C28: an unfiltered getAllVideos(limit, offset) call returns the rows at the
\* positions offset .. offset + limit - 1 of the updatedAt-descending order,
\* whatever an earlier call with another limit or offset left in the cache.
C28_ListingHonoursLimitAndOffset ==
    (reply.op = "getAllVideos" /\ reply.source = "" /\ ~reply.raised)
    => reply.videos \in AllVideosQuery(reply.limit, reply.offset, "")


\* C29: GET /videos/trending with limit L returns the top min(L, K) of the K
\* rows of explore_index by (popularityScore desc, id desc), also when the
\* response cache was filled by an earlier request with a smaller limit.
C29_TrendingTopOfIndex ==
    reply.op = "trendingRoute" =>
        LET key == [i \in DOMAIN exploreIndex |->
                       <<exploreIndex[i].popularityScore, i>>]
            K == Cardinality(DOMAIN exploreIndex)
        IN  reply.videos = FirstN(OrderDesc(DOMAIN exploreIndex, key),
                                  Min(reply.limit, K))


\* C30: upserting a drama whose (source, externalId) is already stored changes
\* only that Video's metadata and updatedAt: the step of the update statement
\* keeps the row's id, key and createdAt, every other Video row, every
\* VideoStats row, and the serial sequences; unless the statement fails, the
\* row then carries the metadata and the updatedAt of the call.
C30_UpdateChangesOnlyMetadata ==
    [][\A p \in SyncCallers :
          (sync[p].pc = "update" /\ sync'[p] # sync[p])
          => LET id == sync[p].existing[1]
             IN  /\ DOMAIN videos' = DOMAIN videos
                 /\ \A i \in DOMAIN videos : i # id => videos'[i] = videos[i]
                 /\ videos'[id].source = videos[id].source
                 /\ videos'[id].externalId = videos[id].externalId
                 /\ videos'[id].createdAt = videos[id].createdAt
                 /\ faultsLeft' = faultsLeft =>
                        /\ videos'[id].title = sync[p].data.title
                        /\ videos'[id].updatedAt = sync[p].data.updatedAt
                 /\ UNCHANGED <<videoStats, exploreIndex, videosIdSeq, statsIdSeq,
                                exploreIdSeq>>]_vars

\* a viewed video updated after it was created: new title, later updatedAt
C30_Witness ==
    \E i \in DOMAIN videos :
        /\ videos[i].updatedAt > videos[i].createdAt
        /\ videos[i].title = "Y"
        /\ \E j \in StatsRows(i) : videoStats[j].viewsTotal > 0

============================================================================
